---- MODULE Spec2Model ----
(***************************************************************************)
(* Engineering Knowledge Graph: the graph store (graph/storage.py), the    *)
(* connectors and the load pipeline (connectors/*.py, main.py) and the     *)
(* traversal query engine (graph/query.py).                                *)
(*                                                                         *)
(* Strings are sequences of one-character strings, so that an id           *)
(* "<type>:<name>", a bare name and a free-text ownership target are       *)
(* values of one kind and can be compared, concatenated and split.         *)
(* The store is a Neo4j database: a node is the flat property map Cypher   *)
(* keeps for it (id, type, name and the node's properties side by side),   *)
(* a relationship is its two end nodes and its flat property map.  A       *)
(* property whose value is null does not exist in Neo4j.                   *)
(***************************************************************************)
EXTENDS Integers, Sequences, FiniteSets, TLC

VARIABLES
    nodes,      \* the nodes of the database: a set of flat property maps
    edges,      \* the :EDGE relationships: [source, target, props, copy]
    last,       \* the last operation invoked, its argument and what it returned
    pc,         \* load_graph's position, then serving / responding
    files,      \* the three source files load_graph reads
    driver,     \* GraphStorage._driver: None until connect, None after close
    last_result, \* IntentParser.last_result: the set holding it, empty for None
    last_entity  \* IntentParser.last_entity

vars == <<nodes, edges, last, pc, files, driver, last_result, last_entity>>

----------------------------------------------------------------------------
(* Strings *)

service == <<"s","e","r","v","i","c","e">>
database == <<"d","a","t","a","b","a","s","e">>
cache == <<"c","a","c","h","e">>
team == <<"t","e","a","m">>
calls == <<"c","a","l","l","s">>
owns == <<"o","w","n","s">>

\* Python's None, Cypher's null: not a string of characters.
None == <<"None">>

\* The driver object GraphDatabase.driver(...) returns.
Driver == <<"Driver">>

\* A Python int and True as property values.
IntValue(n) == <<"int", n>>

\* f"{type}:{name}"
NodeId(type, name) == type \o <<":">> \o name

\* f"edge:{src}-{type}-{dst}"
EdgeId(src, type, dst) == <<"e","d","g","e",":">> \o src \o <<"-">> \o type \o <<"-">> \o dst

----------------------------------------------------------------------------
(* Python string operations *)

UpperCase == <<"A","B","C","D","E","F","G","H","I","J","K","L","M",
               "N","O","P","Q","R","S","T","U","V","W","X","Y","Z">>
LowerCase == <<"a","b","c","d","e","f","g","h","i","j","k","l","m",
               "n","o","p","q","r","s","t","u","v","w","x","y","z">>

\* str.lower()
Lower(s) ==
    [i \in 1..Len(s) |->
        IF \E j \in 1..26 : UpperCase[j] = s[i]
        THEN LowerCase[CHOOSE j \in 1..26 : UpperCase[j] = s[i]]
        ELSE s[i]]

\* s[i:i+len(sub)] == sub
OccursAt(sub, s, i) ==
    /\ i >= 1
    /\ i + Len(sub) - 1 <= Len(s)
    /\ SubSeq(s, i, i + Len(sub) - 1) = sub

\* sub in s
Contains(sub, s) == \E i \in 1..(Len(s) + 1) : OccursAt(sub, s, i)

\* s.endswith(sub)
EndsWith(s, sub) == OccursAt(sub, s, Len(s) - Len(sub) + 1)

\* s.split(sep) for a one-character separator
RECURSIVE Split(_, _)
Split(s, sep) ==
    IF \A i \in 1..Len(s) : s[i] # sep THEN <<s>>
    ELSE LET i == CHOOSE j \in 1..Len(s) :
                      s[j] = sep /\ \A k \in 1..(j - 1) : s[k] # sep
         IN  <<SubSeq(s, 1, i - 1)>> \o Split(SubSeq(s, i + 1, Len(s)), sep)

\* s.split(sep, 1)
SplitOnce(s, sep) ==
    IF \A i \in 1..Len(s) : s[i] # sep THEN <<s>>
    ELSE LET i == CHOOSE j \in 1..Len(s) :
                      s[j] = sep /\ \A k \in 1..(j - 1) : s[k] # sep
         IN  <<SubSeq(s, 1, i - 1), SubSeq(s, i + 1, Len(s))>>

IsDigits(s) == Len(s) > 0 /\ \A i \in 1..Len(s) : \E d \in 1..10 : <<"0","1","2","3","4","5","6","7","8","9">>[d] = s[i]

\* int(s) for a string of decimal digits
RECURSIVE IntOf(_)
IntOf(s) ==
    IF s = <<>> THEN 0
    ELSE 10 * IntOf(SubSeq(s, 1, Len(s) - 1))
           + (CHOOSE d \in 1..10 : <<"0","1","2","3","4","5","6","7","8","9">>[d] = s[Len(s)]) - 1

\* re.search(prefix + "([^...]+)" + closer, s).group(1): the leftmost place
\* where prefix is followed by one or more characters outside `excluded`
\* and then by one of the characters of `closers` (by anything, or the end,
\* when closers is empty).  The characters of closers are all excluded, so
\* the group is the whole run up to the first excluded character.  None
\* when there is no match.
RegexGroup(s, prefix, excluded, closers) ==
    LET RunEnd(i) ==
            \* the last index of the run of allowed characters from i
            IF \E j \in i..Len(s) : s[j] \in excluded
            THEN (CHOOSE j \in i..Len(s) :
                     s[j] \in excluded /\ \A k \in i..(j - 1) : s[k] \notin excluded) - 1
            ELSE Len(s)
        Matches(i) ==
            /\ OccursAt(prefix, s, i)
            /\ RunEnd(i + Len(prefix)) >= i + Len(prefix)
            /\ closers # {} =>
                  /\ RunEnd(i + Len(prefix)) < Len(s)
                  /\ s[RunEnd(i + Len(prefix)) + 1] \in closers
        starts == {i \in 1..Len(s) : Matches(i)}
    IN  IF starts = {} THEN None
        ELSE LET i == CHOOSE j \in starts : \A k \in starts : j <= k
             IN  SubSeq(s, i + Len(prefix), RunEnd(i + Len(prefix)))

----------------------------------------------------------------------------
(* Python dicts and Cypher property maps: functions on a finite set of keys *)

EmptyMap == [k \in {} |-> None]

\* dict.get(key)
Get(m, k) == IF k \in DOMAIN m THEN m[k] ELSE None

\* Cypher  SET x += $properties : keys of the map are written over x, keys
\* not in the map are kept, and a key whose value in the map is null is
\* removed from x.
PlusEq(m, props) ==
    LET keys == {k \in (DOMAIN m) \cup (DOMAIN props) :
                    IF k \in DOMAIN props THEN props[k] # None ELSE TRUE}
    IN  [k \in keys |-> IF k \in DOMAIN props THEN props[k] ELSE m[k]]

\* Cypher  SET x.key = value  (a null value removes the property)
SetProp(m, key, value) == PlusEq(m, [k \in {key} |-> value])

----------------------------------------------------------------------------
(* graph/storage.py: GraphStorage *)

\* The nodes MATCH (n {id: $id}) finds.
NodesWithId(ns, id) == {n \in ns : Get(n, "id") = id}

\* A store that replaces the node's property map by the one given, instead
\* of writing the given keys over the stored ones.
UpsertNodeReplacing(ns, node) ==
    (ns \ NodesWithId(ns, node.id))
        \cup {PlusEq([id |-> node.id, type |-> node.type, name |-> node.name],
                     node.properties)}

\* upsert_node:  MERGE (n {id: $id})
\*               SET n.type = $type, n.name = $name, n += $properties
\* MERGE binds the nodes that carry the id, or creates one that carries only
\* the id; the SET items are then applied to each, in order.
UpsertNodeIn(ns, node) ==
    LET matched == NodesWithId(ns, node.id)
        bound   == IF matched = {} THEN {[k \in {"id"} |-> node.id]} ELSE matched
        Set(n)  == PlusEq(SetProp(SetProp(n, "type", node.type),
                                  "name", node.name),
                          node.properties)
    IN  (ns \ matched) \cup {Set(n) : n \in bound}

\* A store that CREATEs the relationship instead of MERGEing it: one more
\* relationship with every call.
UpsertEdgeCreating(ns, es, edge) ==
    IF NodesWithId(ns, edge.source) = {} \/ NodesWithId(ns, edge.target) = {}
    THEN es
    ELSE es \cup {[source |-> edge.source, target |-> edge.target,
                   props |-> PlusEq([id |-> edge.id, type |-> edge.type],
                                    edge.properties),
                   copy |-> Cardinality({r \in es : /\ r.source = edge.source
                                                    /\ r.target = edge.target
                                                    /\ Get(r.props, "id") = edge.id})]}

\* upsert_edge:  MATCH (source {id: $source})  MATCH (target {id: $target})
\*               MERGE (source)-[r:EDGE {id: $id}]->(target)
\*               SET r.type = $type, r += $properties
\* No row, and so no write, unless both end nodes exist.  MERGE binds the
\* relationships from source to target that carry the id, or creates one
\* between them.  Relationships are entities of their own: "copy" tells
\* apart relationships with the same ends and the same id property (MERGE
\* never makes a second one).
UpsertEdgeIn(ns, es, edge) ==
    IF NodesWithId(ns, edge.source) = {} \/ NodesWithId(ns, edge.target) = {}
    THEN es
    ELSE
        LET matched == {r \in es : /\ r.source = edge.source
                                   /\ r.target = edge.target
                                   /\ Get(r.props, "id") = edge.id}
            created == [source |-> edge.source, target |-> edge.target,
                        props |-> [k \in {"id"} |-> edge.id], copy |-> 0]
            bound   == IF matched = {} THEN {created} ELSE matched
            Set(r)  == [r EXCEPT !.props =
                          PlusEq(SetProp(r.props, "type", edge.type),
                                 edge.properties)]
        IN  (es \ matched) \cup {Set(r) : r \in bound}

\* delete_node:  MATCH (n {id: $id}) DETACH DELETE n RETURN count(n)
DeleteNodeNodes(ns, id) == ns \ NodesWithId(ns, id)

\* DELETE without DETACH, were the database to allow it: the relationships stay.
DeleteNodeEdgesKept(ns, es, id) == es

DeleteNodeEdges(ns, es, id) ==
    IF NodesWithId(ns, id) = {} THEN es
    ELSE {r \in es : r.source # id /\ r.target # id}

\* bulk_upsert_nodes: upsert_node for each node of the list, in order
RECURSIVE BulkUpsertNodes(_, _)
BulkUpsertNodes(ns, list) ==
    IF list = <<>> THEN ns
    ELSE BulkUpsertNodes(UpsertNodeIn(ns, Head(list)), Tail(list))

\* bulk_upsert_edges: upsert_edge for each edge of the list, in order
RECURSIVE BulkUpsertEdges(_, _, _)
BulkUpsertEdges(ns, es, list) ==
    IF list = <<>> THEN es
    ELSE BulkUpsertEdges(ns, UpsertEdgeIn(ns, es, Head(list)), Tail(list))

\* get_all_edges: one dict per relationship; "properties" is the
\* relationship's map without its id and type.
EdgeDict(r) ==
    [id |-> Get(r.props, "id"), type |-> Get(r.props, "type"),
     source |-> r.source, target |-> r.target,
     properties |-> [k \in (DOMAIN r.props) \ {"id", "type"} |-> r.props[k]]]

GetAllEdges(es) == {EdgeDict(r) : r \in es}

\* A query that MERGEs the node it looks for: the node is there afterwards.
AfterMerge(ns, id) ==
    IF NodesWithId(ns, id) = {} THEN ns \cup {[k \in {"id"} |-> id]} ELSE ns

\* The nodes of the database after session.run of a query whose clauses are
\* MATCH, WHERE, WITH, UNWIND and RETURN, whatever it looks for: as before.
AfterMatch(ns, id) == ns

\* get_nodes(node_type, filters):  MATCH (n {type: $type}) or MATCH (n),
\* WHERE n.<key> = $filter_<key> AND ... , RETURN n.  A null never equals.
GetNodesOf(ns, node_type, filters) ==
    {n \in ns : /\ node_type # None => Get(n, "type") = node_type
                /\ \A k \in DOMAIN filters :
                      filters[k] # None /\ Get(n, k) = filters[k]}

\* get_node:  MATCH (n {id: $id}) RETURN n ; dict(record["n"]) or None
GetNode(ns, id) ==
    IF NodesWithId(ns, id) = {} THEN None
    ELSE CHOOSE n \in NodesWithId(ns, id) : TRUE

----------------------------------------------------------------------------
(* connectors/base.py *)

\* dict.update(other)
DictUpdate(m, other) ==
    [k \in (DOMAIN m) \cup (DOMAIN other) |->
        IF k \in DOMAIN other THEN other[k] ELSE m[k]]

\* _add_node: a node whose id is already in the list gets the new
\* properties written over its own; otherwise the node is appended.
AddNode(list, node) ==
    IF \E i \in 1..Len(list) : list[i].id = node.id
    THEN LET i == CHOOSE j \in 1..Len(list) :
                      list[j].id = node.id /\ \A k \in 1..(j - 1) : list[k].id # node.id
         IN  [list EXCEPT ![i].properties = DictUpdate(@, node.properties)]
    ELSE Append(list, node)

\* _add_edge: an edge whose id is already in the list is dropped.
AddEdge(list, edge) ==
    IF \E i \in 1..Len(list) : list[i].id = edge.id THEN list
    ELSE Append(list, edge)

\* What parse hands back, and what an exception leaving parse looks like.
Parsed(ns, es) == [raised |-> FALSE, nodes |-> ns, edges |-> es]
Raised == [raised |-> TRUE]

----------------------------------------------------------------------------
(* connectors/docker_compose.py *)

DATABASE_IMAGES ==
    << <<"p","o","s","t","g","r","e","s">>, <<"m","y","s","q","l">>,
       <<"m","a","r","i","a","d","b">>, <<"m","o","n","g","o","d","b">>,
       <<"c","a","s","s","a","n","d","r","a">> >>

CACHE_IMAGES == << <<"r","e","d","i","s">>, <<"m","e","m","c","a","c","h","e","d">> >>

\* services.get(name, {}): the configuration of a service, {} when there is
\* none of that name.  A configuration is read with .get and defaults.

HasService(services, name) == \E i \in 1..Len(services) : services[i].name = name

ConfigOf(services, name) ==
    IF HasService(services, name)
    THEN services[CHOOSE i \in 1..Len(services) : services[i].name = name].config
    ELSE [labels |-> EmptyMap, image |-> <<>>, ports |-> <<>>, depends_on |-> <<>>,
          environment |-> [kind |-> "list", items |-> <<>>]]

\* _infer_node_type
InferNodeType(name, config) ==
    IF Get(config.labels, "type") = database THEN database
    ELSE IF Get(config.labels, "type") = cache THEN cache
    ELSE IF \E i \in 1..Len(DATABASE_IMAGES) :
                Contains(DATABASE_IMAGES[i], Lower(config.image)) THEN database
    ELSE IF \E i \in 1..Len(CACHE_IMAGES) :
                Contains(CACHE_IMAGES[i], Lower(config.image)) THEN cache
    ELSE IF \E x \in { <<"d","b">>, database, <<"p","o","s","t","g","r","e","s">>,
                       <<"m","y","s","q","l">> } : Contains(x, Lower(name))
    THEN database
    ELSE IF \E x \in { <<"r","e","d","i","s">>, cache,
                       <<"m","e","m","c","a","c","h","e","d">> } : Contains(x, Lower(name))
    THEN cache
    ELSE service

\* _infer_edge_type
InferEdgeType(target_type) ==
    IF target_type = database THEN <<"r","e","a","d","s","_","f","r","o","m">>
    ELSE IF target_type = cache THEN <<"u","s","e","s">>
    ELSE calls

\* d[key] = value on a dict kept as its (key, value) pairs in insertion
\* order: a key already there keeps its place and takes the new value.
SetItem(pairs, key, value) ==
    IF \E i \in 1..Len(pairs) : pairs[i][1] = key
    THEN [i \in 1..Len(pairs) |->
             IF pairs[i][1] = key THEN <<key, value>> ELSE pairs[i]]
    ELSE Append(pairs, <<key, value>>)

\* _parse_environment: a dict as it is, a list of "KEY=value" strings split
\* at the first "="; the pairs in order.
RECURSIVE ParseEnvironmentList(_, _)
ParseEnvironmentList(items, acc) ==
    IF items = <<>> THEN acc
    ELSE LET kv == SplitOnce(Head(items), "=")
         IN  ParseEnvironmentList(Tail(items),
                 IF Len(kv) = 2 THEN SetItem(acc, kv[1], kv[2]) ELSE acc)

ParseEnvironment(environment) ==
    IF environment.kind = "dict" THEN environment.items
    ELSE ParseEnvironmentList(environment.items, <<>>)

\* _extract_service_from_url: the first of the four patterns that matches
ExtractServiceFromUrl(url) ==
    LET scheme == <<":", "/", "/">>
        http   == <<"h","t","t","p",":","/","/">>
        excl   == {":", "/", "@"}
        g1 == RegexGroup(url, scheme, excl, {":"})
        g2 == RegexGroup(url, scheme, excl, {"/"})
        g3 == RegexGroup(url, <<"@">>, excl, {":"})
        g4 == RegexGroup(url, http, excl, {})
    IN  IF g1 # None THEN g1
        ELSE IF g2 # None THEN g2
        ELSE IF g3 # None THEN g3
        ELSE g4

\* The port written into the properties, if any: the second ":" field of a
\* string port, as an int (int() raises on anything but digits), or an int
\* port itself.
PortRaises(config) ==
    /\ config.ports # <<>>
    /\ config.ports[1].kind = "str"
    /\ Contains(<<":">>, config.ports[1].value)
    /\ ~IsDigits(Split(config.ports[1].value, ":")[2])

PortProperty(config) ==
    IF config.ports = <<>> THEN EmptyMap
    ELSE IF config.ports[1].kind = "str"
    THEN IF Contains(<<":">>, config.ports[1].value)
         THEN [k \in {"port"} |-> IntValue(IntOf(Split(config.ports[1].value, ":")[2]))]
         ELSE EmptyMap
    ELSE [k \in {"port"} |-> IntValue(config.ports[1].value)]

\* The node of one service: team and oncall labels, the port, every other
\* label, and then without the keys whose value is None.
DockerNode(name, config) ==
    LET labels == config.labels
        base   == [k \in {"team", "oncall"} |-> Get(labels, k)]
        others == [k \in (DOMAIN labels) \ {"team", "oncall"} |-> labels[k]]
        all    == DictUpdate(DictUpdate(base, PortProperty(config)), others)
        kept   == [k \in {j \in DOMAIN all : all[j] # None} |-> all[k]]
        type   == InferNodeType(name, config)
    IN  [id |-> NodeId(type, name), type |-> type, name |-> name,
         properties |-> kept]

RECURSIVE DockerNodes(_, _)
DockerNodes(services, acc) ==
    IF services = <<>> THEN acc
    ELSE DockerNodes(Tail(services),
                     AddNode(acc, DockerNode(Head(services).name, Head(services).config)))

\* The edge from a service to a dependency named in depends_on or found in
\* an environment value.
DockerEdge(services, name, dep) ==
    LET source_type == InferNodeType(name, ConfigOf(services, name))
        dep_type    == InferNodeType(dep, ConfigOf(services, dep))
        edge_type   == InferEdgeType(dep_type)
    IN  [id |-> EdgeId(name, edge_type, dep), type |-> edge_type,
         source |-> NodeId(source_type, name), target |-> NodeId(dep_type, dep),
         properties |-> EmptyMap]

RECURSIVE DependsOnEdges(_, _, _, _)
DependsOnEdges(services, name, deps, acc) ==
    IF deps = <<>> THEN acc
    ELSE DependsOnEdges(services, name, Tail(deps),
                        AddEdge(acc, DockerEdge(services, name, Head(deps))))

RECURSIVE EnvironmentEdges(_, _, _, _)
EnvironmentEdges(services, name, env, acc) ==
    IF env = <<>> THEN acc
    ELSE LET key   == Head(env)[1]
             value == Head(env)[2]
             target_name == ExtractServiceFromUrl(value)
             edge  == DockerEdge(services, name, target_name)
             found == /\ Contains(<<"_","U","R","L">>, key)
                      /\ value # <<>>
                      /\ target_name # None
                      /\ HasService(services, target_name)
                      /\ edge.target # edge.source
         IN  EnvironmentEdges(services, name, Tail(env),
                              IF found THEN AddEdge(acc, edge) ELSE acc)

RECURSIVE DockerEdges(_, _, _)
DockerEdges(services, rest, acc) ==
    IF rest = <<>> THEN acc
    ELSE LET name   == Head(rest).name
             config == Head(rest).config
             deps   == DependsOnEdges(services, name, config.depends_on, acc)
             env    == EnvironmentEdges(services, name,
                                        ParseEnvironment(config.environment), deps)
         IN  DockerEdges(services, Tail(rest), env)

\* DockerComposeConnector.parse: a file that cannot be read or is not YAML
\* gives no nodes and no edges; an empty file loads as None, and
\* data.get raises; a service with nothing under its name has None for
\* configuration, and config.get raises.
DockerParse(file) ==
    IF file.kind = "unreadable" THEN Parsed(<<>>, <<>>)
    ELSE IF file.kind = "empty" THEN Raised
    ELSE IF \E i \in 1..Len(file.services) : "config" \notin DOMAIN file.services[i]
    THEN Raised
    ELSE IF \E i \in 1..Len(file.services) : PortRaises(file.services[i].config)
    THEN Raised
    ELSE Parsed(DockerNodes(file.services, <<>>),
                DockerEdges(file.services, file.services, <<>>))

----------------------------------------------------------------------------
(* connectors/teams.py *)

\* The team node and the raw owns edges of one team: the target of an edge
\* is the string the file gives.
TeamNode(t) ==
    [id |-> NodeId(team, t.name), type |-> team, name |-> t.name,
     properties |-> [lead |-> t.lead, slack_channel |-> t.slack_channel,
                     pagerduty_schedule |-> t.pagerduty_schedule]]

OwnsEdge(name, owned_item) ==
    [id |-> EdgeId(name, owns, owned_item), type |-> owns,
     source |-> NodeId(team, name), target |-> owned_item,
     properties |-> EmptyMap]

RECURSIVE OwnsEdges(_, _, _)
OwnsEdges(name, items, acc) ==
    IF items = <<>> THEN acc
    ELSE OwnsEdges(name, Tail(items), AddEdge(acc, OwnsEdge(name, Head(items))))

RECURSIVE TeamsLoop(_, _, _)
TeamsLoop(teams, ns, es) ==
    IF teams = <<>> THEN Parsed(ns, es)
    ELSE LET t == Head(teams)
         IN  IF t.name = None \/ t.name = <<>>
             THEN TeamsLoop(Tail(teams), ns, es)
             ELSE TeamsLoop(Tail(teams), AddNode(ns, TeamNode(t)),
                            OwnsEdges(t.name, t.owns, es))

\* TeamsConnector.parse
TeamsParse(file) ==
    IF file.kind = "unreadable" THEN Parsed(<<>>, <<>>)
    ELSE IF file.kind = "empty" THEN Raised
    ELSE TeamsLoop(file.teams, <<>>, <<>>)

\* node_map, as its (key, value) pairs in insertion order: each node's name
\* and each node's id give that node's id.
RECURSIVE NodeMap(_, _)
NodeMap(all_nodes, acc) ==
    IF all_nodes = <<>> THEN acc
    ELSE NodeMap(Tail(all_nodes),
                 SetItem(SetItem(acc, Head(all_nodes).name, Head(all_nodes).id),
                         Head(all_nodes).id, Head(all_nodes).id))

\* A resolver without the exact lookup: every target goes to the first key
\* that contains it.
ResolveEdgeFuzzyOnly(pairs, edge) ==
    LET hits == {i \in 1..Len(pairs) : Contains(edge.target, pairs[i][1])}
        i    == CHOOSE j \in hits : \A k \in hits : j <= k
    IN  IF edge.type # owns \/ hits = {} THEN <<>>
        ELSE << [id |-> EdgeId(Split(edge.source, ":")[2], owns, Split(pairs[i][2], ":")[2]),
                 type |-> edge.type, source |-> edge.source,
                 target |-> pairs[i][2], properties |-> edge.properties] >>

\* What resolve_ownership_targets appends for one edge of the connector.
\* An owns edge whose target is a key of node_map keeps its id and gets the
\* mapped id as target.  Otherwise the first key of node_map, in insertion
\* order, that contains the target or ends with it gives the target, and
\* the id is made anew from the two names; with no such key nothing is
\* appended.
ResolveEdge(pairs, edge) ==
    IF edge.type # owns THEN <<>>
    ELSE IF \E i \in 1..Len(pairs) : pairs[i][1] = edge.target
    THEN << [edge EXCEPT !.target =
                pairs[CHOOSE i \in 1..Len(pairs) : pairs[i][1] = edge.target][2]] >>
    ELSE LET hits == {i \in 1..Len(pairs) :
                        \/ Contains(edge.target, pairs[i][1])
                        \/ EndsWith(pairs[i][1], edge.target)}
             i    == CHOOSE j \in hits : \A k \in hits : j <= k
         IN  IF hits = {} THEN <<>>
             ELSE << [id |-> EdgeId(Split(edge.source, ":")[2], owns, Split(pairs[i][2], ":")[2]),
                      type |-> edge.type, source |-> edge.source,
                      target |-> pairs[i][2], properties |-> edge.properties] >>

\* resolve_ownership_targets(all_nodes) on a connector that has parsed:
\* what each of self.edges gave, in order.
ResolveOwnershipTargets(self_edges, all_nodes) ==
    [i \in 1..Len(self_edges) |-> ResolveEdge(NodeMap(all_nodes, <<>>), self_edges[i])]

\* resolved_edges, the list returned
RECURSIVE Flatten(_)
Flatten(lists) ==
    IF lists = <<>> THEN <<>> ELSE Head(lists) \o Flatten(Tail(lists))

----------------------------------------------------------------------------
(* connectors/kubernetes.py *)

\* _extract_service_from_k8s_url
ExtractServiceFromK8sUrl(url) ==
    LET g1 == RegexGroup(url, <<"h","t","t","p",":","/","/">>, {"."}, {"."})
        g2 == RegexGroup(url, <<":", "/", "/">>, {":", "/", "."}, {".", ":"})
    IN  IF g1 # None THEN g1 ELSE g2

Namespace(doc) == IF doc.namespace = None THEN <<"d","e","f","a","u","l","t">> ELSE doc.namespace

\* limits.get("cpu") and the like: only what is set and not empty
ResourceInfo(container) ==
    LET Pick(m, k, as) ==
            IF Get(m, k) # None /\ Get(m, k) # <<>>
            THEN [j \in {as} |-> m[k]] ELSE EmptyMap
    IN  DictUpdate(
            DictUpdate(Pick(container.limits, "cpu", "resource_limit_cpu"),
                       Pick(container.limits, "memory", "resource_limit_memory")),
            DictUpdate(Pick(container.requests, "cpu", "resource_request_cpu"),
                       Pick(container.requests, "memory", "resource_request_memory")))

\* container_info of the first container
ContainerInfo(doc) ==
    IF doc.containers = <<>> THEN EmptyMap
    ELSE DictUpdate([image |-> doc.containers[1].image,
                     replicas |-> IntValue(doc.replicas),
                     namespace |-> Namespace(doc)],
                    ResourceInfo(doc.containers[1]))

\* env_vars of the first container: the entries with a name and a value
RECURSIVE EnvVars(_, _)
EnvVars(env, acc) ==
    IF env = <<>> THEN acc
    ELSE LET e == Head(env)
         IN  EnvVars(Tail(env),
                     IF e.name # None /\ e.name # <<>> /\ e.value # None /\ e.value # <<>>
                     THEN SetItem(acc, e.name, e.value) ELSE acc)

DeploymentNode(doc) ==
    [id |-> NodeId(service, doc.name), type |-> service, name |-> doc.name,
     properties |->
         DictUpdate([team |-> Get(doc.labels, "team"),
                     k8s_namespace |-> Namespace(doc),
                     k8s_replicas |-> IntValue(doc.replicas)],
                    ContainerInfo(doc))]

RECURSIVE K8sEnvEdges(_, _, _)
K8sEnvEdges(name, env, acc) ==
    IF env = <<>> THEN acc
    ELSE LET key   == Head(env)[1]
             value == Head(env)[2]
             target_name == ExtractServiceFromK8sUrl(value)
             edge  == [id |-> EdgeId(name, calls, target_name), type |-> calls,
                       source |-> NodeId(service, name),
                       target |-> NodeId(service, target_name),
                       properties |-> [k \in {"via"} |-> <<"k","8","s","_","e","n","v">>]]
             found == /\ Contains(<<"_","U","R","L">>, key)
                      /\ target_name # None
                      /\ target_name # name
         IN  K8sEnvEdges(name, Tail(env), IF found THEN AddEdge(acc, edge) ELSE acc)

\* _parse_deployment
ParseDeployment(doc, ns, es) ==
    IF doc.name = None \/ doc.name = <<>> THEN Parsed(ns, es)
    ELSE Parsed(AddNode(ns, DeploymentNode(doc)),
                K8sEnvEdges(doc.name,
                            IF doc.containers = <<>> THEN <<>>
                            ELSE EnvVars(doc.containers[1].env, <<>>),
                            es))

\* _parse_service: the first node of this connector with the name gets
\* k8s_port (when the first port is set) and k8s_service.
ParseService(doc, ns, es) ==
    IF doc.name = None \/ doc.name = <<>> THEN Parsed(ns, es)
    ELSE IF \A i \in 1..Len(ns) : ns[i].name # doc.name THEN Parsed(ns, es)
    ELSE LET i == CHOOSE j \in 1..Len(ns) :
                      ns[j].name = doc.name /\ \A k \in 1..(j - 1) : ns[k].name # doc.name
             port == IF doc.ports = <<>> \/ doc.ports[1] = 0 THEN EmptyMap
                     ELSE [k \in {"k8s_port"} |-> IntValue(doc.ports[1])]
         IN  Parsed([ns EXCEPT ![i].properties =
                        DictUpdate(DictUpdate(@, port),
                                   [k \in {"k8s_service"} |-> <<"True">>])],
                    es)

RECURSIVE K8sLoop(_, _, _)
K8sLoop(documents, ns, es) ==
    IF documents = <<>> THEN Parsed(ns, es)
    ELSE LET doc  == Head(documents)
             step == IF doc.kind = "empty" THEN Parsed(ns, es)
                     ELSE IF doc.kind = "Deployment" THEN ParseDeployment(doc, ns, es)
                     ELSE IF doc.kind = "Service" THEN ParseService(doc, ns, es)
                     ELSE Parsed(ns, es)
         IN  K8sLoop(Tail(documents), step.nodes, step.edges)

\* KubernetesConnector.parse; "missing" is no file at the path, which
\* load_graph checks before it makes the connector.
K8sParse(file) ==
    IF file.kind = "unreadable" THEN Parsed(<<>>, <<>>)
    ELSE K8sLoop(file.documents, <<>>, <<>>)

----------------------------------------------------------------------------
(* graph/query.py: QueryEngine *)

\* [r:EDGE*1..10]
MaxDepth == 10

\* shortestPath((start)-[*..15]-(end))
MaxPathHops == 15

NodeIdsOf(dicts) == {Get(n, "id") : n \in dicts}

\* One more relationship on each path matched so far.  A Cypher path never
\* uses a relationship twice, so a path is its end node and the set of
\* relationships it went over.  forward: (start)-[..]->(x); otherwise
\* (x)-[..]->(target), walked from the target.
ExtendPaths(es, paths, forward) ==
    UNION { { <<IF forward THEN r.target ELSE r.source, p[2] \cup {r}>> :
                r \in {q \in es \ p[2] :
                         IF forward THEN q.source = p[1] ELSE q.target = p[1]} } :
            p \in paths }

\* The end nodes of the paths of 1 .. depth relationships.
RECURSIVE PathEnds(_, _, _, _)
PathEnds(es, paths, forward, depth) ==
    IF depth = 0 \/ paths = {} THEN {}
    ELSE LET longer == ExtendPaths(es, paths, forward)
         IN  {p[1] : p \in longer} \cup PathEnds(es, longer, forward, depth - 1)

\* A traversal that goes one relationship further than the pattern allows.
VarLengthMatchOneFurther(ns, es, node_id, forward) ==
    IF NodesWithId(ns, node_id) = {} THEN {}
    ELSE LET ends == PathEnds(es, {<<node_id, {}>>}, forward, MaxDepth + 1)
         IN  {n \in ns : Get(n, "id") \in ends}

\* The rows of  MATCH (start {id: $node_id})
\*              MATCH path = (start)-[r:EDGE*1..10]->(x) ... WITH DISTINCT x
\* and of the mirrored upstream query: no row when no node carries the id.
VarLengthMatch(ns, es, node_id, forward) ==
    IF NodesWithId(ns, node_id) = {} THEN {}
    ELSE LET ends == PathEnds(es, {<<node_id, {}>>}, forward, MaxDepth)
         IN  {n \in ns : Get(n, "id") \in ends}

\* downstream(node_id): the distinct nodes, as dicts, in the database's order
DownstreamOf(ns, es, node_id) == VarLengthMatch(ns, es, node_id, TRUE)

\* upstream(node_id)
UpstreamOf(ns, es, node_id) == VarLengthMatch(ns, es, node_id, FALSE)

\* get_owner:  MATCH (team {type: 'team'})-[r:EDGE {type: 'owns'}]->
\*                   (target {id: $node_id}) RETURN team
OwnerRows(ns, es, node_id) ==
    {t \in ns : /\ Get(t, "type") = team
                /\ \E r \in es : /\ r.source = Get(t, "id")
                                 /\ r.target = node_id
                                 /\ Get(r.props, "type") = owns}

\* result.single(): None without a row, the row when there is one, and the
\* first row the database happens to return when there are several.  A
\* result is the set holding the team returned, empty for None.
GetOwnerResults(ns, es, node_id) ==
    IF OwnerRows(ns, es, node_id) = {} THEN {{}}
    ELSE {{t} : t \in OwnerRows(ns, es, node_id)}

\* blast_radius: all_affected_ids
AllAffectedIds(upstream, downstream, node_id) ==
    NodeIdsOf(upstream \cup downstream) \cup {node_id}

\* A count that adds the two lists and the node, counting twice a node that
\* is on both sides.
TotalAffectedSum(upstream, downstream, node_id) ==
    Cardinality(upstream) + Cardinality(downstream) + 1

\* blast_radius: total_affected = len(all_affected_ids)
TotalAffected(upstream, downstream, node_id) ==
    Cardinality(AllAffectedIds(upstream, downstream, node_id))

\* blast_radius(node_id): the results it can return; None for an id that is
\* not stored.  owner gives, for each affected id, what get_owner returned.
BlastRadiusResults(ns, es, node_id) ==
    IF NodesWithId(ns, node_id) = {} THEN {[none |-> TRUE]}
    ELSE
        LET upstream   == UpstreamOf(ns, es, node_id)
            downstream == DownstreamOf(ns, es, node_id)
            affected   == AllAffectedIds(upstream, downstream, node_id)
            Returned   == UNION {GetOwnerResults(ns, es, x) : x \in affected}
            Owners     == {f \in [affected -> Returned] :
                             \A x \in affected :
                                f[x] \in GetOwnerResults(ns, es, x)}
        IN  { [none |-> FALSE,
               node |-> GetNode(ns, node_id),
               upstream |-> upstream,
               downstream |-> downstream,
               affected_teams |-> UNION {owner[x] : x \in affected},
               total_affected |-> TotalAffected(upstream, downstream, node_id)] :
              owner \in Owners }

\* A search that follows the relationships only from source to target.
NeighboursForward(es, id) == {r.target : r \in {q \in es : q.source = id}}

\* get_nodes_owned_by_team:
\*   MATCH (team {id: $team_id})-[r:EDGE {type: 'owns'}]->(owned) RETURN owned
NodesOwnedByTeamOf(ns, es, team_name) ==
    {n \in ns : \E r \in es : /\ r.source = NodeId(team, team_name)
                              /\ NodesWithId(ns, r.source) # {}
                              /\ Get(r.props, "type") = owns
                              /\ r.target = Get(n, "id")}

\* search_nodes:  MATCH (n) WHERE toLower(n.name) CONTAINS toLower($query_text)
\*                            OR toLower(n.id) CONTAINS toLower($query_text)
SearchNodesOf(ns, query_text) ==
    {n \in ns : \/ Get(n, "name") # None /\ Contains(Lower(query_text), Lower(Get(n, "name")))
                \/ Contains(Lower(query_text), Lower(Get(n, "id")))}

\* The nodes one relationship away, in either direction: -[*]-
Neighbours(es, id) ==
    {r.target : r \in {q \in es : q.source = id}}
        \cup {r.source : r \in {q \in es : q.target = id}}

SeqRange(q) == {q[i] : i \in 1..Len(q)}

\* Breadth first from the start: all the paths of `hops` relationships that
\* repeat no node; the first length at which one ends at to_id gives the
\* shortest paths.
RECURSIVE ShortestFrom(_, _, _, _)
ShortestFrom(es, paths, to_id, hops) ==
    LET found == {p \in paths : p[Len(p)] = to_id}
    IN  IF found # {} THEN found
        ELSE IF hops = MaxPathHops \/ paths = {} THEN {}
        ELSE ShortestFrom(
                 es,
                 UNION { {Append(p, n) :
                            n \in Neighbours(es, p[Len(p)]) \ SeqRange(p)} :
                         p \in paths },
                 to_id, hops + 1)

\* path(from_id, to_id): the results it can return, each the ids of the
\* dicts returned, in order.
\*   MATCH (start {id: $from_id}), (end {id: $to_id})
\*   MATCH path = shortestPath((start)-[*..15]-(end))
\*   UNWIND nodes(path) as node RETURN DISTINCT node
\* No row unless both nodes exist and a path of at most 15 relationships
\* joins them; one of the shortest paths when there are several.  For a
\* node and itself Neo4j raises, or gives no row where its configuration
\* (forbid_shortestpath_common_nodes = false) turns the refusal off.
PathResults(ns, es, from_id, to_id) ==
    IF NodesWithId(ns, from_id) = {} \/ NodesWithId(ns, to_id) = {}
    THEN {[error |-> FALSE, nodes |-> <<>>]}
    ELSE IF from_id = to_id
    THEN {[error |-> TRUE], [error |-> FALSE, nodes |-> <<>>]}
    ELSE LET shortest == ShortestFrom(es, {<<from_id>>}, to_id, 0)
         IN  IF shortest = {} THEN {[error |-> FALSE, nodes |-> <<>>]}
             ELSE {[error |-> FALSE, nodes |-> p] : p \in shortest}

----------------------------------------------------------------------------
(* The store driven through its interface: any caller, any order *)

\* Property maps a caller passes: partial sets of two ordinary keys, a null
\* value, and the key "type" (docker_compose.py copies every label other
\* than team and oncall into the properties, a "type" label included).
PropInputs ==
    { EmptyMap,
      [k \in {"team"} |-> <<"x">>],
      [k \in {"team"} |-> <<"y">>],
      [k \in {"oncall"} |-> <<"x">>],
      [k \in {"team"} |-> None],
      [k \in {"type"} |-> database] }

\* connectors/base.py: Node
\* Every type, name and property map for one id, and one plain node beside it.
NodeInputs ==
    { [id |-> NodeId(service, <<"a">>), type |-> t, name |-> n, properties |-> p] :
        t \in {service, database}, n \in {<<"a">>, <<"b">>}, p \in PropInputs }
    \cup { [id |-> NodeId(service, <<"b">>), type |-> service, name |-> <<"b">>,
            properties |-> EmptyMap] }

\* connectors/base.py: Edge
EdgeInputs ==
    { [id |-> i, type |-> t, source |-> st[1], target |-> st[2],
       properties |-> p] :
        i \in {EdgeId(<<"a">>, calls, <<"b">>), EdgeId(<<"b">>, calls, <<"a">>)}, t \in {calls, owns},
        st \in {<<NodeId(service, <<"a">>), NodeId(service, <<"b">>)>>, <<NodeId(service, <<"b">>), NodeId(service, <<"a">>)>>},
        p \in {EmptyMap, [k \in {"via"} |-> <<"k","8","s","_","e","n","v">>]} }

\* A node as upsert_node stores it.
StoredNode(type, name) == [id |-> NodeId(type, name), type |-> type, name |-> name]

\* The number of relationships the store is driven to.
MaxEdges == 2

Init ==
    /\ nodes = {}
    /\ edges = {}
    /\ last = [op |-> "init"]
    /\ pc = "serving"
    /\ files = <<>>
    /\ driver = Driver
    /\ last_result = {}
    /\ last_entity = None

UpsertNode(node) ==
    /\ nodes' = UpsertNodeIn(nodes, node)
    /\ last' = [op |-> "upsert_node", arg |-> node,
                existed |-> NodesWithId(nodes, node.id) # {},
                repeat |-> last.op = "upsert_node" /\ last.arg = node]
    /\ UNCHANGED <<edges, pc, files, driver, last_result, last_entity>>

UpsertEdge(edge) ==
    /\ Cardinality(UpsertEdgeIn(nodes, edges, edge)) <= MaxEdges
    /\ edges' = UpsertEdgeIn(nodes, edges, edge)
    /\ last' = [op |-> "upsert_edge", arg |-> edge,
                existed |-> \E r \in edges : Get(r.props, "id") = edge.id]
    /\ UNCHANGED <<nodes, pc, files, driver, last_result, last_entity>>

DeleteNode(id) ==
    /\ nodes' = DeleteNodeNodes(nodes, id)
    /\ edges' = DeleteNodeEdges(nodes, edges, id)
    /\ last' = [op |-> "delete_node", arg |-> id,
                result |-> Cardinality(NodesWithId(nodes, id)) > 0]
    /\ UNCHANGED <<pc, files, driver, last_result, last_entity>>

\* clear_all:  MATCH (n) DETACH DELETE n
ClearAll ==
    /\ nodes' = {}
    /\ edges' = {}
    /\ last' = [op |-> "clear_all"]
    /\ UNCHANGED <<pc, files, driver, last_result, last_entity>>

Next ==
    \/ \E node \in NodeInputs : UpsertNode(node)
    \/ \E edge \in EdgeInputs : UpsertEdge(edge)
    \/ \E id \in {NodeId(service, <<"a">>), NodeId(service, <<"b">>)} : DeleteNode(id)
    \/ ClearAll

Spec == Init /\ [][Next]_vars

----------------------------------------------------------------------------
(* The source files *)

Config(labels, image, ports, depends_on, environment) ==
    [labels |-> labels, image |-> image, ports |-> ports,
     depends_on |-> depends_on, environment |-> environment]

\* data/docker-compose.yml
ComposeTopology ==
    [kind |-> "data",
     services |->
       << [name |-> <<"a">>,
           config |-> Config([k \in {"team"} |-> <<"x">>], <<"n","o","d","e",":","2","0">>, <<>>, <<>>,
                             [kind |-> "list",
                              items |-> << <<"B","_","U","R","L","=","h","t","t","p",":","/","/","b",":","8","0","/">> >>])],
          [name |-> <<"b">>,
           config |-> Config(EmptyMap, <<"n","o","d","e",":","2","0">>, <<>>, << <<"d","b">> >>, [kind |-> "list", items |-> <<>>])],
          [name |-> <<"d","b">>,
           config |-> Config(EmptyMap, <<"p","o","s","t","g","r","e","s",":","1","5">>, <<>>, <<>>, [kind |-> "list", items |-> <<>>])] >>]

ComposeLabelled ==
    [kind |-> "data",
     services |->
       << [name |-> <<"a">>,
           config |-> Config([k \in {"type"} |-> <<"w","o","r","k","e","r">>], <<"n","o","d","e",":","2","0">>,
                             <<[kind |-> "str", value |-> <<"8","0","8","0",":","8","0">>]>>,
                             << <<"c">>, <<"a">> >>,
                             [kind |-> "dict",
                              items |-> << << <<"C","_","U","R","L">>,
                                             <<"r","e","d","i","s",":","/","/","c",":","6","3","7","9">> >> >>])],
          [name |-> <<"c">>,
           config |-> Config([k \in {"oncall"} |-> <<"y">>], <<"r","e","d","i","s">>, <<>>, <<>>, [kind |-> "list", items |-> <<>>])] >>]

\* A service with nothing under its name, and one that is complete.
ComposeUnconfigured ==
    [kind |-> "data",
     services |->
       << [name |-> <<"a">>],
          [name |-> <<"b">>,
           config |-> Config(EmptyMap, <<"n","o","d","e",":","2","0">>, <<>>, <<>>, [kind |-> "list", items |-> <<>>])] >>]

Team(name, lead, owned) ==
    [name |-> name, lead |-> lead, slack_channel |-> None,
     pagerduty_schedule |-> None, owns |-> owned]

\* data/teams.yaml

TeamsShared ==
    [kind |-> "data",
     teams |-> <<Team(<<"t">>, None, <<NodeId(service, <<"a">>), NodeId(service, <<"k">>)>>),
                 Team(<<"u">>, <<"y">>, <<NodeId(service, <<"a">>), <<"d","b">> >>)>>]

Container(image, env) ==
    [image |-> image, limits |-> [k \in {"cpu"} |-> <<"1">>], requests |-> EmptyMap,
     env |-> env]

Document(kind, name, labels, containers, ports) ==
    [kind |-> kind, name |-> name, namespace |-> None, labels |-> labels,
     replicas |-> 1, containers |-> containers, ports |-> ports]

\* data/k8s-deployments.yaml
K8sEnriching ==
    [kind |-> "data",
     documents |->
       << Document("Deployment", <<"a">>, EmptyMap,
                   <<Container(<<"n","o","d","e",":","2","0">>,
                               <<[name |-> <<"B","_","U","R","L">>,
                                  value |-> <<"h","t","t","p",":","/","/","b",".","s","v","c">>]>>)>>,
                   <<>>),
          [kind |-> "empty"],
          Document("Service", <<"a">>, EmptyMap, <<>>, <<80>>) >>]

K8sNewNodes ==
    [kind |-> "data",
     documents |->
       << Document("Deployment", <<"k">>, [k \in {"team"} |-> <<"y">>], <<>>, <<>>),
          Document("Deployment", <<"d","b">>, EmptyMap,
                   <<Container(<<"p","o","s","t","g","r","e","s",":","1","5">>,
                               <<[name |-> <<"A","_","U","R","L">>,
                                  value |-> <<"h","t","t","p",":","/","/","a",":","8","0">>]>>)>>,
                   <<>>) >>]

----------------------------------------------------------------------------
(* main.py: load_graph *)

\* get_graph_stats
GraphStats(ns, es) ==
    [total_nodes |-> Cardinality(ns),
     total_edges |-> Cardinality(es),
     nodes_by_type |->
        [t \in {Get(n, "type") : n \in ns} |->
            Cardinality({n \in ns : Get(n, "type") = t})]]

\* What the database holds when the process starts: it outlives the process.

InitLoad ==
    /\ nodes \in {{}, {StoredNode(service, <<"z">>)}}
    /\ edges = {}
    /\ last = [op |-> "init"]
    /\ pc = "start"
    /\ files \in
         [compose : {[kind |-> "unreadable"], [kind |-> "empty"],
                     ComposeTopology, ComposeLabelled, ComposeUnconfigured},
          teams : {[kind |-> "unreadable"], [kind |-> "empty"],
                   [kind |-> "data",
                    teams |-> << Team(<<"t">>, <<"x">>,
                                      << <<"a">>, NodeId(service, <<"b">>) >>) >>],
                   TeamsShared,
                   [kind |-> "data",
                    teams |-> << Team(None, <<"x">>, << <<"a">> >>),
                                 Team(<<"t">>, <<"x">>, <<>>) >>]},
          k8s : {[kind |-> "missing"], [kind |-> "unreadable"],
                 K8sEnriching, K8sNewNodes}]
    /\ driver = None
    /\ last_result = {}
    /\ last_entity = None

\* storage.connect(); storage.clear_all()
LoadClear ==
    /\ pc = "start"
    /\ nodes' = {}
    /\ edges' = {}
    /\ pc' = "compose"
    /\ driver' = Driver
    /\ UNCHANGED <<last, files, last_result, last_entity>>

\* One connector's parse, then bulk_upsert_nodes and bulk_upsert_edges of
\* what it returned; an exception leaves load_graph.
LoadSource(at, result, then) ==
    /\ pc = at
    /\ IF result.raised
       THEN /\ pc' = "failed"
            /\ UNCHANGED <<nodes, edges, driver, last_result, last_entity>>
       ELSE /\ nodes' = BulkUpsertNodes(nodes, result.nodes)
            /\ edges' = BulkUpsertEdges(BulkUpsertNodes(nodes, result.nodes),
                                        edges, result.edges)
            /\ pc' = then
    /\ UNCHANGED <<last, files, driver, last_result, last_entity>>

LoadCompose == LoadSource("compose", DockerParse(files.compose), "teams")

LoadTeams == LoadSource("teams", TeamsParse(files.teams), "k8s")

\* if os.path.exists("data/k8s-deployments.yaml"): ...
LoadK8s ==
    LoadSource("k8s",
               IF files.k8s.kind = "missing" THEN Parsed(<<>>, <<>>)
               ELSE K8sParse(files.k8s),
               "stats")

\* The engine and the parser are made, the statistics printed; the
\* application then serves.
LoadStats ==
    /\ pc = "stats"
    /\ last' = [op |-> "load_graph", result |-> GraphStats(nodes, edges)]
    /\ pc' = "serving"
    /\ UNCHANGED <<nodes, edges, files, driver, last_result, last_entity>>

NextLoad ==
    \/ LoadClear
    \/ LoadCompose
    \/ LoadTeams
    \/ LoadK8s
    \/ LoadStats

SpecLoad == InitLoad /\ [][NextLoad]_vars

----------------------------------------------------------------------------
(* Ingestion: what the connectors return, upserted in any order, any number *)
(* of times                                                                *)

\* The (nodes, edges) pairs parse returns for source files: two compose
\* files, a teams file, a Kubernetes file, and a file that cannot be read.
Batches ==
    {DockerParse(ComposeTopology), DockerParse(ComposeLabelled),
     TeamsParse(TeamsShared), K8sParse(K8sEnriching),
     K8sParse([kind |-> "unreadable"])}

\* bulk_upsert_nodes(nodes) and then bulk_upsert_edges(edges), as load_graph
\* does for each source.
Ingest(batch) ==
    /\ nodes' = BulkUpsertNodes(nodes, batch.nodes)
    /\ edges' = BulkUpsertEdges(BulkUpsertNodes(nodes, batch.nodes),
                                edges, batch.edges)
    /\ last' = [op |-> "ingest", arg |-> batch,
                repeat |-> last.op = "ingest" /\ last.arg = batch]
    /\ UNCHANGED <<pc, files, driver, last_result, last_entity>>

NextIngest ==
    \/ \E batch \in Batches : Ingest(batch)
    \/ \E node \in UNION {SeqRange(b.nodes) : b \in Batches} : UpsertNode(node)
    \/ ClearAll

SpecIngest == Init /\ [][NextIngest]_vars

----------------------------------------------------------------------------
(* Ownership resolution: the teams connector, after its parse, given a list *)
(* of nodes                                                                *)

\* connectors/base.py: Node
ListedNode(type, name) ==
    [id |-> NodeId(type, name), type |-> type, name |-> name, properties |-> EmptyMap]

\* The sequences without repetition of the elements of S.
RECURSIVE Arrangements(_)
Arrangements(S) ==
    {<<>>} \cup UNION { {<<x>> \o q : q \in Arrangements(S \ {x})} : x \in S }

\* all_nodes: any of three nodes, in any order.

\* What a teams file declares as owned: a name, an id, parts of names and
\* of ids, and a string that is part of nothing.

\* The number of targets the team of the file declares.
MaxOwned == 2

InitResolve ==
    /\ nodes = {}
    /\ edges = {}
    /\ last = [op |-> "init"]
    /\ pc = "parsed"
    /\ files \in [teams : {[kind |-> "data", teams |-> <<Team(<<"t">>, <<"x">>, owned)>>] :
                              owned \in UNION { [1..n -> { <<"a","b">>,
                                                            NodeId(service, <<"a","b","c">>),
                                                            <<"b">>, <<"b","c">>, <<"d">>,
                                                            <<"v","i","c","e">>, <<"z">> }] :
                                                  n \in 0..MaxOwned }},
                   all_nodes : Arrangements({ListedNode(service, <<"a","b">>),
                                             ListedNode(service, <<"a","b","c">>),
                                             ListedNode(database, <<"c","d">>)})]
    /\ driver = None
    /\ last_result = {}
    /\ last_entity = None

\* resolve_ownership_targets(all_nodes).  It returns the list of edges and
\* reports nothing else: it prints nothing and raises nothing.
Resolve ==
    /\ pc = "parsed"
    /\ LET self_edges == TeamsParse(files.teams).edges
           emitted    == ResolveOwnershipTargets(self_edges, files.all_nodes)
       IN  last' = [op |-> "resolve_ownership_targets",
                    self_edges |-> self_edges,
                    emitted |-> emitted,
                    result |-> Flatten(emitted),
                    diagnostics |-> <<>>]
    /\ pc' = "resolved"
    /\ UNCHANGED <<nodes, edges, files, driver, last_result, last_entity>>

SpecResolve == InitResolve /\ [][Resolve]_vars

----------------------------------------------------------------------------
(* Claims about the load pipeline *)

\* The teams the file declares under a name, with what each says it owns.
DeclaredTeams ==
    IF files.teams.kind # "data" THEN {}
    ELSE {files.teams.teams[i] : i \in {j \in 1..Len(files.teams.teams) :
                                          files.teams.teams[j].name # None}}

DeclaredTargets(t) == {t.owns[i] : i \in 1..Len(t.owns)}

OwnsStored(t, n) ==
    \E r \in edges :
        /\ Get(r.props, "type") = owns
        /\ r.source = NodeId(team, t.name)
        /\ r.target = Get(n, "id")

\* C1: once the load has completed, every ownership target a team declares
\* that names a node of the graph, by bare name or by full id, is stored as
\* an owns edge from that team's node to that node's id, and both ends of
\* every stored owns edge are ids of stored nodes.
C1_OwnershipResolvedAfterLoad ==
    pc = "serving" =>
        /\ \A t \in DeclaredTeams : \A item \in DeclaredTargets(t) :
               \A n \in nodes :
                   (Get(n, "name") = item \/ Get(n, "id") = item) => OwnsStored(t, n)
        /\ \A r \in edges :
               Get(r.props, "type") = owns =>
                   /\ NodesWithId(nodes, r.source) # {}
                   /\ NodesWithId(nodes, r.target) # {}

----------------------------------------------------------------------------
(* Claims about the store *)

ReservedKeys == {"id", "type", "name"}

\* What upsert_node did to the node it found: every property key of the
\* incoming node reads as the incoming value, every other property the node
\* had is still there with its value.
MergedKeyByKey(old, new, props) ==
    /\ \A k \in DOMAIN props : Get(new, k) = props[k]
    /\ \A k \in (DOMAIN old) \ (ReservedKeys \cup DOMAIN props) :
          k \in DOMAIN new /\ new[k] = old[k]

C3_UpsertEdgeFirstWriteWins ==
    [][ (last'.op = "upsert_edge" /\ last'.existed) => edges' = edges ]_vars

NodeIdsUnique ==
    \A n, m \in nodes : Get(n, "id") = Get(m, "id") => n = m

EdgeIdsUnique ==
    \A r, q \in edges : Get(r.props, "id") = Get(q.props, "id") => r = q

EdgeEndsExist ==
    \A r \in edges :
        NodesWithId(nodes, r.source) # {} /\ NodesWithId(nodes, r.target) # {}

\* C4: in every reachable state of the store every edge's source and target
\* are ids of stored nodes, no two nodes share an id and no two edges share
\* an id.
C4_StoreInvariant == EdgeEndsExist /\ NodeIdsUnique /\ EdgeIdsUnique

\* C6: an upsert_node never changes the type or the name of a node that is
\* already stored (so they stay what they were at first insertion).
C6_TypeAndNameImmutable ==
    [][ (last'.op = "upsert_node" /\ last'.existed) =>
          \A old \in NodesWithId(nodes, last'.arg.id) :
          \A new \in NodesWithId(nodes', last'.arg.id) :
             /\ Get(new, "type") = Get(old, "type")
             /\ Get(new, "name") = Get(old, "name") ]_vars

----------------------------------------------------------------------------
(* Claims about ingestion *)

UniqueIds(list) == \A i, j \in 1..Len(list) : list[i].id = list[j].id => i = j

\* C5: upsert_node applied a second time with the same input leaves the
\* store as the first application left it, and ingesting again a batch whose
\* node ids and edge ids are unique within the batch leaves the set of nodes
\* and the set of edges unchanged.
C5_IdempotentIngestion ==
    [][ /\ last'.op \in {"upsert_node", "ingest"}
        /\ last'.repeat
        /\ last'.op = "ingest" =>
              UniqueIds(last'.arg.nodes) /\ UniqueIds(last'.arg.edges)
        => nodes' = nodes /\ edges' = edges ]_vars

\* A batch with nodes and edges of its own has just been ingested a second
\* time, into a store that holds some of its edges.
C5_Witness ==
    /\ last.op = "ingest"
    /\ last.repeat
    /\ Len(last.arg.nodes) > 1
    /\ UniqueIds(last.arg.nodes) /\ UniqueIds(last.arg.edges)
    /\ \E i \in 1..Len(last.arg.edges) :
           \E r \in edges : Get(r.props, "id") = last.arg.edges[i].id

----------------------------------------------------------------------------
(* The query engine over a loaded graph *)

\* The relationships of a graph given by this many pairs of the small
\* graphs below, and the number of relationships of the long chain.
MaxGraphEdges == 3
ChainLen == 16

\* A relationship as upsert_edge stores it.
StoredEdge(src, type, dst) ==
    [source |-> Get(src, "id"), target |-> Get(dst, "id"),
     props |-> [id |-> EdgeId(Get(src, "name"), type, Get(dst, "name")),
                type |-> type],
     copy |-> 0]

\* owns edges leave team nodes (teams.py), dependency edges leave the others.
EdgeBetween(src, dst) ==
    StoredEdge(src, IF Get(src, "type") = team THEN owns ELSE calls, dst)

SmallNodes ==
    {StoredNode(service, <<"a">>), StoredNode(service, <<"b">>),
     StoredNode(service, <<"c">>), StoredNode(team, <<"t">>)}

\* Every graph on the small nodes with at most MaxGraphEdges relationships,
\* self loops and cycles included; relationships end at the resources (the
\* connectors make no edge whose target is a team).
SmallGraphs ==
    { [nodes |-> SmallNodes, edges |-> {EdgeBetween(p[1], p[2]) : p \in ps}] :
        ps \in {qs \in SUBSET (SmallNodes \X {n \in SmallNodes : Get(n, "type") # team}) :
                   Cardinality(qs) <= MaxGraphEdges} }

ChainNode(i) == StoredNode(service, <<"n", <<"a","b","c","d","e","f","g","h","i","j","k","l","m","n","o","p","q","r","s","t">>[i]>>)

\* The chain n_a -> n_b -> ... of ChainLen relationships, alone or with one
\* more relationship between any two of its nodes.
ChainGraphs ==
    {[nodes |-> {ChainNode(i) : i \in 1..(ChainLen + 1)}, edges |-> {EdgeBetween(ChainNode(i), ChainNode(i + 1)) : i \in 1..ChainLen}]}
    \cup { [nodes |-> {ChainNode(i) : i \in 1..(ChainLen + 1)},
            edges |-> {EdgeBetween(ChainNode(i), ChainNode(i + 1)) : i \in 1..ChainLen} \cup {EdgeBetween(p[1], p[2])}] :
            p \in {ChainNode(i) : i \in 1..(ChainLen + 1)} \X {ChainNode(i) : i \in 1..(ChainLen + 1)} }

\* Two resources and two teams, with any of the owns relationships between
\* them and a call.
OwnerGraphs ==
    LET a == StoredNode(service, <<"a">>)
        b == StoredNode(service, <<"b">>)
        t == StoredNode(team, <<"t">>)
        u == StoredNode(team, <<"u">>)
    IN  { [nodes |-> {a, b, t, u}, edges |-> {EdgeBetween(p[1], p[2]) : p \in ps}] :
            ps \in SUBSET ({<<a, b>>} \cup ({t, u} \X {a, b})) }

InitQuery ==
    /\ \E g \in SmallGraphs \cup ChainGraphs \cup OwnerGraphs :
          /\ nodes = g.nodes
          /\ edges = g.edges
    /\ last = [op |-> "init"]
    /\ pc = "serving"
    /\ files = <<>>
    /\ driver = Driver
    /\ last_result = {}
    /\ last_entity = None

QueryIds == NodeIdsOf(nodes) \cup {NodeId(service, <<"z">>)}

\* edge_types: None, or a list of types

\* downstream(node_id, edge_types).  With edge_types the query text reads
\* r.type for r the list of relationships of the path, which Neo4j rejects:
\* session.run raises.
Downstream(node_id, edge_types) ==
    /\ pc = "serving"
    /\ last' = [op |-> "downstream", arg |-> node_id, edge_types |-> edge_types,
                result |-> IF edge_types # <<>> THEN [error |-> TRUE]
                           ELSE [error |-> FALSE,
                                 nodes |-> DownstreamOf(nodes, edges, node_id)]]
    /\ pc' = "responding"
    /\ UNCHANGED <<nodes, edges, files, driver, last_result, last_entity>>

Upstream(node_id, edge_types) ==
    /\ pc = "serving"
    /\ last' = [op |-> "upstream", arg |-> node_id, edge_types |-> edge_types,
                result |-> IF edge_types # <<>> THEN [error |-> TRUE]
                           ELSE [error |-> FALSE,
                                 nodes |-> UpstreamOf(nodes, edges, node_id)]]
    /\ pc' = "responding"
    /\ UNCHANGED <<nodes, edges, files, driver, last_result, last_entity>>

BlastRadius(node_id) ==
    /\ pc = "serving"
    /\ \E res \in BlastRadiusResults(nodes, edges, node_id) :
          last' = [op |-> "blast_radius", arg |-> node_id, result |-> res]
    /\ pc' = "responding"
    /\ UNCHANGED <<nodes, edges, files, driver, last_result, last_entity>>

Path(from_id, to_id) ==
    /\ pc = "serving"
    /\ \E res \in PathResults(nodes, edges, from_id, to_id) :
          last' = [op |-> "path", arg |-> <<from_id, to_id>>, result |-> res]
    /\ pc' = "responding"
    /\ UNCHANGED <<nodes, edges, files, driver, last_result, last_entity>>

GetOwner(node_id) ==
    /\ pc = "serving"
    /\ \E res \in GetOwnerResults(nodes, edges, node_id) :
          last' = [op |-> "get_owner", arg |-> node_id, result |-> res]
    /\ pc' = "responding"
    /\ UNCHANGED <<nodes, edges, files, driver, last_result, last_entity>>

\* get_node(node_id)
EngineGetNode(node_id) ==
    /\ pc = "serving"
    /\ last' = [op |-> "get_node", arg |-> node_id,
                result |-> GetNode(nodes, node_id)]
    /\ nodes' = AfterMatch(nodes, node_id)
    /\ pc' = "responding"
    /\ UNCHANGED <<edges, files, driver, last_result, last_entity>>

GetNodes(node_type, filters) ==
    /\ pc = "serving"
    /\ last' = [op |-> "get_nodes", arg |-> <<node_type, filters>>,
                result |-> GetNodesOf(nodes, node_type, filters)]
    /\ nodes' = AfterMatch(nodes, None)
    /\ pc' = "responding"
    /\ UNCHANGED <<edges, files, driver, last_result, last_entity>>

GetNodesOwnedByTeam(team_name) ==
    /\ pc = "serving"
    /\ last' = [op |-> "get_nodes_owned_by_team", arg |-> team_name,
                result |-> NodesOwnedByTeamOf(nodes, edges, team_name)]
    /\ nodes' = AfterMatch(nodes, NodeId(team, team_name))
    /\ pc' = "responding"
    /\ UNCHANGED <<edges, files, driver, last_result, last_entity>>

SearchNodes(query_text) ==
    /\ pc = "serving"
    /\ last' = [op |-> "search_nodes", arg |-> query_text,
                result |-> SearchNodesOf(nodes, query_text)]
    /\ nodes' = AfterMatch(nodes, None)
    /\ pc' = "responding"
    /\ UNCHANGED <<edges, files, driver, last_result, last_entity>>

GetGraphStats ==
    /\ pc = "serving"
    /\ last' = [op |-> "get_graph_stats", result |-> GraphStats(nodes, edges)]
    /\ nodes' = AfterMatch(nodes, None)
    /\ pc' = "responding"
    /\ UNCHANGED <<edges, files, driver, last_result, last_entity>>

\* The handler returns: the result has gone to the caller, and the next
\* request is served (main.py's handlers run one at a time).
Respond ==
    /\ pc = "responding"
    /\ pc' = "serving"
    /\ last' = [op |-> "init"]
    /\ UNCHANGED <<nodes, edges, files, driver, last_result, last_entity>>

NextQuery ==
    \/ \E id \in QueryIds, et \in {<<>>, <<calls>>} : Downstream(id, et)
    \/ \E id \in QueryIds, et \in {<<>>, <<calls>>} : Upstream(id, et)
    \/ \E id \in QueryIds : BlastRadius(id)
    \/ \E a, b \in QueryIds : Path(a, b)
    \/ \E id \in QueryIds : GetOwner(id)
    \/ \E id \in QueryIds : EngineGetNode(id)
    \/ \E t \in {None, service, team}, f \in {EmptyMap, [k \in {"name"} |-> <<"a">>]} :
          GetNodes(t, f)
    \/ \E name \in {<<"t">>, <<"u">>, <<"z">>} : GetNodesOwnedByTeam(name)
    \/ \E text \in {<<"a">>, <<"N">>, <<"e",":","b">>, <<"z">>} : SearchNodes(text)
    \/ GetGraphStats
    \/ Respond

SpecQuery == InitQuery /\ [][NextQuery]_vars

----------------------------------------------------------------------------
(* Claims about the query engine *)

\* The nodes one directed edge away from a node of S.
StepFrom(S, forward) ==
    {IF forward THEN r.target ELSE r.source :
        r \in {q \in edges : IF forward THEN q.source \in S ELSE q.target \in S}}

\* The nodes reached from S by following between 1 and hops directed edges.
RECURSIVE ReachedWithin(_, _, _)
ReachedWithin(S, forward, hops) ==
    IF hops = 0 \/ S = {} THEN {}
    ELSE StepFrom(S, forward) \cup ReachedWithin(StepFrom(S, forward), forward, hops - 1)

Answered(op) ==
    /\ last.op = op
    /\ ~last.result.error
    /\ NodesWithId(nodes, last.arg) # {}

\* C7: for a stored id, downstream returns exactly the nodes reached by
\* following between 1 and 10 directed edges forward, each once, and
\* upstream the same with every edge reversed; a node 11 or more hops away
\* is not returned.
C7_DownstreamUpstreamReach ==
    /\ Answered("downstream") =>
          /\ NodeIdsOf(last.result.nodes) = ReachedWithin({last.arg}, TRUE, 10)
          /\ Cardinality(last.result.nodes) = Cardinality(NodeIdsOf(last.result.nodes))
    /\ Answered("upstream") =>
          /\ NodeIdsOf(last.result.nodes) = ReachedWithin({last.arg}, FALSE, 10)
          /\ Cardinality(last.result.nodes) = Cardinality(NodeIdsOf(last.result.nodes))

\* C7 witness: downstream of the head of the chain returned the node 10
\* hops away and left out the node 11 hops away, which 11 hops do reach.
C7_Witness ==
    /\ Answered("downstream")
    /\ last.arg = Get(ChainNode(1), "id")
    /\ Get(ChainNode(11), "id") \in NodeIdsOf(last.result.nodes)
    /\ Get(ChainNode(12), "id") \notin NodeIdsOf(last.result.nodes)
    /\ Get(ChainNode(12), "id") \in ReachedWithin({last.arg}, TRUE, 11)

\* C8: the result of downstream(id) and of upstream(id) never contains the
\* start node, also when a directed cycle goes through it.
C8_StartNodeExcluded ==
    (Answered("downstream") \/ Answered("upstream")) =>
        last.arg \notin NodeIdsOf(last.result.nodes)

\* The graph of the scenario: services a, b, c with calls edges a -> b and
\* b -> c, and team t with an owns edge to a.
ScenarioGraph ==
    /\ nodes = SmallNodes
    /\ edges = {StoredEdge(StoredNode(service, <<"a">>), calls, StoredNode(service, <<"b">>)),
                StoredEdge(StoredNode(service, <<"b">>), calls, StoredNode(service, <<"c">>)),
                StoredEdge(StoredNode(team, <<"t">>), owns, StoredNode(service, <<"a">>))}

\* C9: on the scenario graph downstream(a) = {b, c}, upstream(c) = {a, b},
\* blastRadius(b) has upstream {a}, downstream {c}, affectedTeams {t} and
\* totalAffected 3, and path(a, c) = [a, b, c].
C9_Scenario ==
    ScenarioGraph =>
        /\ (Answered("downstream") /\ last.arg = NodeId(service, <<"a">>)) =>
              NodeIdsOf(last.result.nodes) = {NodeId(service, <<"b">>), NodeId(service, <<"c">>)}
        /\ (Answered("upstream") /\ last.arg = NodeId(service, <<"c">>)) =>
              NodeIdsOf(last.result.nodes) = {NodeId(service, <<"a">>), NodeId(service, <<"b">>)}
        /\ (last.op = "blast_radius" /\ last.arg = NodeId(service, <<"b">>)) =>
              /\ ~last.result.none
              /\ NodeIdsOf(last.result.upstream) = {NodeId(service, <<"a">>)}
              /\ NodeIdsOf(last.result.downstream) = {NodeId(service, <<"c">>)}
              /\ NodeIdsOf(last.result.affected_teams) = {NodeId(team, <<"t">>)}
              /\ last.result.total_affected = 3
        /\ (last.op = "path" /\ last.arg = <<NodeId(service, <<"a">>), NodeId(service, <<"c">>)>>) =>
              /\ ~last.result.error
              /\ last.result.nodes = <<NodeId(service, <<"a">>), NodeId(service, <<"b">>), NodeId(service, <<"c">>)>>

\* C10: for a stored node x, blastRadius(x).totalAffected is the number of
\* elements of upstream(x) \cup downstream(x) \cup {x}: a node in both, or
\* x itself in either, counts once.
C10_TotalAffectedIsUnion ==
    (last.op = "blast_radius" /\ NodesWithId(nodes, last.arg) # {}) =>
        /\ ~last.result.none
        /\ last.result.total_affected =
              Cardinality(NodeIdsOf(UpstreamOf(nodes, edges, last.arg))
                            \cup NodeIdsOf(DownstreamOf(nodes, edges, last.arg))
                            \cup {last.arg})

\* C10 witness: a blast radius whose upstream and downstream share a node
\* and hold x itself (x lies on a cycle), so the sum of the sizes is more
\* than the union.
C10_Witness ==
    /\ last.op = "blast_radius"
    /\ ~last.result.none
    /\ last.arg \in NodeIdsOf(last.result.downstream)
    /\ NodeIdsOf(last.result.upstream) \cap NodeIdsOf(last.result.downstream)
          \notin {{}, {last.arg}}
    /\ last.result.total_affected <
          Cardinality(last.result.upstream) + Cardinality(last.result.downstream) + 1

\* The nodes at most one relationship, in either direction, from a node of S.
Around(S) ==
    S \cup {r.target : r \in {q \in edges : q.source \in S}}
      \cup {r.source : r \in {q \in edges : q.target \in S}}

\* The least number of relationships, whatever their direction, from the
\* nodes S (reached in `hops`) to b; MaxPathHops + 1 when it takes more
\* than MaxPathHops or b cannot be reached.
RECURSIVE HopCount(_, _, _)
HopCount(S, b, hops) ==
    IF b \in S THEN hops
    ELSE IF hops = MaxPathHops \/ Around(S) = S THEN MaxPathHops + 1
    ELSE HopCount(Around(S), b, hops + 1)

Joined(x, y) ==
    \E r \in edges : (r.source = x /\ r.target = y) \/ (r.source = y /\ r.target = x)

PathAsked(a, b) ==
    /\ last.op = "path"
    /\ last.arg = <<a, b>>
    /\ NodesWithId(nodes, a) # {}
    /\ NodesWithId(nodes, b) # {}

\* C11: for distinct stored nodes a and b, when b can be reached from a over
\* at most 15 relationships taken in either direction, path(a, b) returns a
\* sequence of nodes from a to b in which consecutive nodes are joined by a
\* relationship and whose number of hops is the least possible; otherwise
\* it returns the empty sequence.
C11_PathIsShortest ==
    \A a, b \in NodeIdsOf(nodes) :
        (PathAsked(a, b) /\ a # b) =>
            /\ ~last.result.error
            /\ LET p == last.result.nodes
                   d == HopCount({a}, b, 0)
               IN  IF d <= MaxPathHops
                   THEN /\ Len(p) = d + 1
                        /\ p[1] = a
                        /\ p[Len(p)] = b
                        /\ \A i \in 1..(Len(p) - 1) : Joined(p[i], p[i + 1])
                   ELSE p = <<>>

\* C11 witness: the path from the head of the chain to the node 15
\* relationships further on was returned, against the direction of the
\* relationships.
C11_Witness ==
    /\ PathAsked(Get(ChainNode(16), "id"), Get(ChainNode(1), "id"))
    /\ ~last.result.error
    /\ Len(last.result.nodes) = 16
    /\ HopCount({Get(ChainNode(1), "id")}, Get(ChainNode(17), "id"), 0) = MaxPathHops + 1

\* C12: for a stored node a, path(a, a) returns the sequence [a].
C12_PathToItself ==
    \A a \in NodeIdsOf(nodes) :
        PathAsked(a, a) => (~last.result.error /\ last.result.nodes = <<a>>)

\* Code points order the characters of the ids.
CodePoints ==
    <<"-", ".", "/">> \o <<"0","1","2","3","4","5","6","7","8","9">> \o <<":", "=", "@">> \o UpperCase \o <<"_">> \o LowerCase

CodePoint(c) == CHOOSE i \in 1..Len(CodePoints) : CodePoints[i] = c

\* s < t for Python strings
RECURSIVE StrLess(_, _)
StrLess(s, t) ==
    IF t = <<>> THEN FALSE
    ELSE IF s = <<>> THEN TRUE
    ELSE IF Head(s) = Head(t) THEN StrLess(Tail(s), Tail(t))
    ELSE CodePoint(Head(s)) < CodePoint(Head(t))

\* p comes before q when, at the first step where they part, p takes the
\* smaller node id.
RECURSIVE PathBefore(_, _)
PathBefore(p, q) ==
    IF p = <<>> \/ q = <<>> THEN FALSE
    ELSE IF Head(p) = Head(q) THEN PathBefore(Tail(p), Tail(q))
    ELSE StrLess(Head(p), Head(q))

\* The sequences of ids from a to b over d relationships taken in either
\* direction.
RECURSIVE WalksOf(_, _, _)
WalksOf(a, b, d) ==
    IF d = 0 THEN (IF a = b THEN {<<a>>} ELSE {})
    ELSE UNION { {<<a>> \o w : w \in WalksOf(x, b, d - 1)} :
                 x \in {y \in Around({a}) \ {a} : HopCount({y}, b, 0) = d - 1} }

\* C13: when several shortest paths join a and b, path(a, b) returns the one
\* that takes the smallest node id at each step where they part, so every
\* call returns the same sequence.
C13_PathTieBreak ==
    \A a, b \in NodeIdsOf(nodes) :
        (PathAsked(a, b) /\ a # b /\ ~last.result.error /\ last.result.nodes # <<>>) =>
            \A q \in WalksOf(a, b, HopCount({a}, b, 0)) :
                ~PathBefore(q, last.result.nodes)

\* What a caller can tell from a value that something was not found.
IsTypedError(result) == result.error

\* C14: for an id that is not in the store, blast_radius fails with a typed
\* not-found result, and downstream, upstream, path and get_owner do not
\* return the empty or none value they return for a stored node with
\* nothing to report.
C14_TypedErrors ==
    /\ (last.op \in {"downstream", "upstream"} /\ NodesWithId(nodes, last.arg) = {})
          => IsTypedError(last.result)
    /\ (last.op = "path"
          /\ (NodesWithId(nodes, last.arg[1]) = {} \/ NodesWithId(nodes, last.arg[2]) = {}))
          => IsTypedError(last.result)
    /\ (last.op = "blast_radius" /\ NodesWithId(nodes, last.arg) = {})
          => ~last.result.none
    /\ (last.op = "get_owner" /\ NodesWithId(nodes, last.arg) = {})
          => last.result # {}

\* The team nodes with an owns relationship to the node.
OwningTeams(id) ==
    {t \in nodes : /\ Get(t, "type") = team
                   /\ \E r \in edges : /\ Get(r.props, "type") = owns
                                       /\ r.source = Get(t, "id")
                                       /\ r.target = id}

\* C15: get_owner(id) returns the team that owns id, none when no team owns
\* it, and neither of the teams (an ambiguity is reported instead) when two
\* or more teams own it.
C15_GetOwner ==
    last.op = "get_owner" =>
        /\ OwningTeams(last.arg) = {} => last.result = {}
        /\ Cardinality(OwningTeams(last.arg)) = 1 => last.result = OwningTeams(last.arg)
        /\ Cardinality(OwningTeams(last.arg)) > 1 =>
              \A t \in OwningTeams(last.arg) : last.result # {t}

Resolved == last.op = "resolve_ownership_targets"

\* The raw owns edges the resolution went over, by position.
RawOwns == {i \in 1..Len(last.self_edges) : last.self_edges[i].type = owns}

AllNodes == {files.all_nodes[i] : i \in 1..Len(files.all_nodes)}

\* The nodes a target string names: by bare name or by full id.
ExactMatches(target) == {n \in AllNodes : n.name = target \/ n.id = target}

\* The fuzzy candidates of a target string: the nodes whose name contains it
\* or whose id ends with it.
Candidates(target) ==
    {n \in AllNodes : Contains(target, n.name) \/ EndsWith(n.id, target)}

\* C16: a raw owns edge whose target matches no node exactly resolves, with
\* one fuzzy candidate, to that node's id, and with two or more to the
\* candidate with the lexicographically smallest id, whatever the order of
\* the node list, and then a diagnostic is recorded.
C16_FuzzyResolutionDeterministic ==
    Resolved =>
        \A i \in RawOwns :
            LET target == last.self_edges[i].target
                cands  == Candidates(target)
            IN  (ExactMatches(target) = {} /\ cands # {}) =>
                    /\ Len(last.emitted[i]) = 1
                    /\ \E n \in cands :
                          /\ last.emitted[i][1].target = n.id
                          /\ \A m \in cands : ~StrLess(m.id, n.id)
                    /\ Cardinality(cands) > 1 => last.diagnostics # <<>>

\* C17: a raw owns edge whose target has no exact match and no fuzzy
\* candidate gets a diagnostic; it does not vanish from the result without
\* one.
C17_UnresolvedOwnershipDiagnosed ==
    Resolved =>
        \A i \in RawOwns :
            LET target == last.self_edges[i].target
            IN  (ExactMatches(target) = {} /\ Candidates(target) = {}) =>
                    \/ last.emitted[i] # <<>>
                    \/ last.diagnostics # <<>>

\* C18: for a raw owns edge whose target equals the bare name or the full id
\* of a listed node, resolution emits exactly one edge, with the same id,
\* type and source, whose target is the id of a node of that name or id;
\* the fuzzy rule plays no part.
C18_ExactResolution ==
    Resolved =>
        \A i \in RawOwns :
            LET raw == last.self_edges[i]
            IN  ExactMatches(raw.target) # {} =>
                    /\ Len(last.emitted[i]) = 1
                    /\ last.emitted[i][1].id = raw.id
                    /\ last.emitted[i][1].type = raw.type
                    /\ last.emitted[i][1].source = raw.source
                    /\ last.emitted[i][1].target \in {n.id : n \in ExactMatches(raw.target)}

\* C18 witness: the target "ab" is the name of the second node of the list
\* and part of the name of the first; the edge went to service:ab under its
\* own id.
C18_Witness ==
    /\ Resolved
    /\ Len(files.all_nodes) > 1
    /\ files.all_nodes[1].name = <<"a","b","c">>
    /\ \E i \in RawOwns :
          /\ last.self_edges[i].target = <<"a","b">>
          /\ last.emitted[i] # <<>>
          /\ last.emitted[i][1].target = NodeId(service, <<"a","b">>)
          /\ last.emitted[i][1].id = EdgeId(<<"t">>, owns, <<"a","b">>)

\* C19: no query operation, in any order and any number of times, creates,
\* removes or changes a node or an edge: the sets of nodes and of edges are
\* the same after every step of the query engine.
C19_QueriesReadOnly ==
    [][nodes' = nodes /\ edges' = edges]_vars

\* C19 witness: a query has answered with nodes of the store, for an id it
\* did not find and for a text it did find.
C19_Witness ==
    \/ /\ last.op = "get_node"
       /\ last.arg = NodeId(service, <<"z">>)
       /\ last.result = None
       /\ nodes # {}
    \/ /\ last.op = "search_nodes"
       /\ Cardinality(last.result) > 1

\* The nodes the sources that can be read and parsed give.
NodesOfSources ==
    LET results == {DockerParse(files.compose), TeamsParse(files.teams)}
                     \cup (IF files.k8s.kind = "missing" THEN {} ELSE {K8sParse(files.k8s)})
    IN  UNION {SeqRange(r.nodes) : r \in {q \in results : ~q.raised}}

\* C20: a source that is unreadable, invalid, empty or has an entity without
\* configuration does not stop the load: the load does not abort, and when
\* it has completed the nodes of the other sources are in the store.
C20_SourceFailuresIsolated ==
    /\ pc # "failed"
    /\ pc = "serving" =>
          \A n \in NodesOfSources : NodesWithId(nodes, n.id) # {}

----------------------------------------------------------------------------
(* graph/storage.py: the life of a GraphStorage object *)

\* Nodes and edges a caller passes: three services, and a ring of calls.
LifecycleNodes ==
    { [id |-> NodeId(service, n), type |-> service, name |-> n,
       properties |-> EmptyMap] : n \in { <<"a">>, <<"b">>, <<"c">> } }

\* GraphStorage(): __init__ sets _driver to None and opens nothing.
InitStorage ==
    /\ nodes = {}
    /\ edges = {}
    /\ last = [op |-> "init"]
    /\ pc = "constructed"
    /\ files = <<>>
    /\ driver = None
    /\ last_result = {}
    /\ last_entity = None

\* connect: a driver is made when there is none
Connect ==
    /\ driver' = IF driver = None THEN Driver ELSE driver
    /\ last' = [op |-> "connect", raised |-> ""]
    /\ UNCHANGED <<nodes, edges, pc, files, last_result, last_entity>>

\* close: the driver is closed and _driver is None again
Close ==
    /\ driver' = None
    /\ last' = [op |-> "close", raised |-> ""]
    /\ UNCHANGED <<nodes, edges, pc, files, last_result, last_entity>>

\* with self._driver.session() as session: when _driver is None the
\* attribute lookup None.session raises AttributeError, before any query runs.
NoSession(op, arg) ==
    /\ driver = None
    /\ last' = [op |-> op, arg |-> arg, raised |-> "AttributeError"]
    /\ UNCHANGED <<nodes, edges, pc, files, driver, last_result, last_entity>>

\* What a method that ran its query leaves in `last`.
Ran(op, arg, result) ==
    /\ driver # None
    /\ last' = [op |-> op, arg |-> arg, raised |-> "", result |-> result]
    /\ UNCHANGED <<pc, files, driver, last_result, last_entity>>

StorageClearAll ==
    \/ NoSession("clear_all", None)
    \/ /\ Ran("clear_all", None, None)
       /\ nodes' = {}
       /\ edges' = {}

StorageUpsertNode(node) ==
    \/ NoSession("upsert_node", node.id)
    \/ /\ Ran("upsert_node", node.id, None)
       /\ nodes' = UpsertNodeIn(nodes, node)
       /\ edges' = edges

StorageUpsertEdge(edge) ==
    \/ NoSession("upsert_edge", edge.id)
    \/ /\ Ran("upsert_edge", edge.id, None)
       /\ edges' = UpsertEdgeIn(nodes, edges, edge)
       /\ nodes' = nodes

StorageGetNode(node_id) ==
    \/ NoSession("get_node", node_id)
    \/ /\ Ran("get_node", node_id, NodeIdsOf(NodesWithId(nodes, node_id)))
       /\ nodes' = AfterMatch(nodes, node_id)
       /\ edges' = edges

StorageGetNodes(node_type) ==
    \/ NoSession("get_nodes", node_type)
    \/ /\ Ran("get_nodes", node_type, NodeIdsOf(GetNodesOf(nodes, node_type, EmptyMap)))
       /\ nodes' = AfterMatch(nodes, None)
       /\ edges' = edges

StorageDeleteNode(node_id) ==
    \/ NoSession("delete_node", node_id)
    \/ /\ Ran("delete_node", node_id, Cardinality(NodesWithId(nodes, node_id)) > 0)
       /\ nodes' = DeleteNodeNodes(nodes, node_id)
       /\ edges' = DeleteNodeEdges(nodes, edges, node_id)

StorageGetAllEdges ==
    \/ NoSession("get_all_edges", None)
    \/ /\ Ran("get_all_edges", None, {e.id : e \in GetAllEdges(edges)})
       /\ nodes' = AfterMatch(nodes, None)
       /\ edges' = edges

NextStorage ==
    \/ Connect
    \/ Close
    \/ StorageClearAll
    \/ \E node \in LifecycleNodes : StorageUpsertNode(node)
    \/ \E p \in { << <<"a">>, <<"b">> >>, << <<"b">>, <<"c">> >>, << <<"c">>, <<"a">> >> } :
          StorageUpsertEdge([id |-> EdgeId(p[1], calls, p[2]), type |-> calls,
                             source |-> NodeId(service, p[1]),
                             target |-> NodeId(service, p[2]),
                             properties |-> EmptyMap])
    \/ \E node \in LifecycleNodes : StorageGetNode(node.id)
    \/ \E node_type \in {None, service} : StorageGetNodes(node_type)
    \/ \E node \in LifecycleNodes : StorageDeleteNode(node.id)
    \/ StorageGetAllEdges

SpecStorage == InitStorage /\ [][NextStorage]_vars

\* The operations of the store other than connect and close.
StoreOperations ==
    {"clear_all", "upsert_node", "upsert_edge", "get_node", "get_nodes",
     "delete_node", "get_all_edges"}

\* C21: a store operation other than connect and close invoked while the
\* store has no connection fails with NotConnected and leaves the stored
\* graph unchanged; invoked on a connected store it succeeds; connect on a
\* connected store and close on a closed one change nothing.
C21_StoreLifecycle ==
    [][ /\ (last'.op \in StoreOperations /\ driver = None) =>
              /\ last'.raised = "NotConnected"
              /\ nodes' = nodes
              /\ edges' = edges
        /\ (last'.op \in StoreOperations /\ driver # None) => last'.raised = ""
        /\ (last'.op = "connect" /\ driver # None) =>
              UNCHANGED <<nodes, edges, driver>>
        /\ (last'.op = "close" /\ driver = None) =>
              UNCHANGED <<nodes, edges, driver>> ]_vars

\* C22: delete_node(id) removes the node with that id and every edge whose
\* source or target is that node, and leaves every other node and edge as it
\* was; it returns true exactly when a node with that id was stored before
\* the call, and when it returns false the store is unchanged.
C22_DeleteNode ==
    [][ (last'.op = "delete_node" /\ last'.raised = "") =>
          LET id == last'.arg
              existed == \E n \in nodes : Get(n, "id") = id
          IN  /\ nodes' = {n \in nodes : Get(n, "id") # id}
              /\ edges' = {r \in edges : r.source # id /\ r.target # id}
              /\ last'.result = existed
              /\ ~existed => (nodes' = nodes /\ edges' = edges) ]_vars

\* C22 witness: a delete_node that found its node has returned, one node is
\* gone and, of the ring of three relationships, the one between the two
\* nodes that are left is still there.
C22_Witness ==
    /\ last.op = "delete_node"
    /\ last.raised = ""
    /\ last.result
    /\ NodesWithId(nodes, last.arg) = {}
    /\ Cardinality(nodes) = 2
    /\ Cardinality(edges) = 1
    /\ \A r \in edges : r.source # last.arg /\ r.target # last.arg

----------------------------------------------------------------------------
(* chat/intent.py: IntentParser *)

\* for prefix in ["service:", "database:", "cache:", "team:"]
Prefixes ==
    << NodeId(service, <<>>), NodeId(database, <<>>),
       NodeId(cache, <<>>), NodeId(team, <<>>) >>

\* A resolution that tries the prefixes from the last to the first.
ResolveNodeIdLastPrefixFirst(ns, identifier) ==
    IF Contains(<<":">>, identifier) /\ NodesWithId(ns, identifier) # {}
    THEN {identifier}
    ELSE LET found == {i \in 1..Len(Prefixes) :
                          NodesWithId(ns, Prefixes[i] \o identifier) # {}}
         IN  IF found # {}
             THEN {Prefixes[CHOOSE i \in found : \A j \in found : i >= j] \o identifier}
             ELSE IF SearchNodesOf(ns, identifier) # {}
                  THEN NodeIdsOf(SearchNodesOf(ns, identifier))
                  ELSE {None}

\* _resolve_node_id(identifier): the values it can return.  search_nodes has
\* no ORDER BY, so results[0] is whichever matching node the database
\* returns first.
ResolveNodeIdResults(ns, identifier) ==
    IF Contains(<<":">>, identifier) /\ NodesWithId(ns, identifier) # {}
    THEN {identifier}
    ELSE LET found == {i \in 1..Len(Prefixes) :
                          NodesWithId(ns, Prefixes[i] \o identifier) # {}}
         IN  IF found # {}
             THEN {Prefixes[CHOOSE i \in found : \A j \in found : i <= j] \o identifier}
             ELSE IF SearchNodesOf(ns, identifier) # {}
                  THEN NodeIdsOf(SearchNodesOf(ns, identifier))
                  ELSE {None}

\* s.replace(old, ""), for a non-empty old
RECURSIVE Remove(_, _)
Remove(s, old) ==
    IF s = <<>> THEN s
    ELSE IF OccursAt(old, s, 1)
    THEN Remove(SubSeq(s, Len(old) + 1, Len(s)), old)
    ELSE <<Head(s)>> \o Remove(Tail(s), old)

\* What a handler does: it returns a dict or leaves by an exception, having
\* invoked these operations of the query engine.
Returned(result, invoked) == [raised |-> FALSE, result |-> result, invoked |-> invoked]

\* {"type": "error", "message": ...}
Error(message) == [type |-> "error", message |-> message]

\* The engine operations one _resolve_node_id invokes: get_node for the
\* literal or the prefixes, search_nodes when none of them is stored.
ResolveCalls(ns, identifier) ==
    IF \/ Contains(<<":">>, identifier) /\ NodesWithId(ns, identifier) # {}
       \/ \E i \in 1..Len(Prefixes) : NodesWithId(ns, Prefixes[i] \o identifier) # {}
    THEN {"get_node"}
    ELSE {"get_node", "search_nodes"}

\* The opening of the handlers that take a node_id: the parameter is
\* required, and it is resolved before anything is asked of the engine.
\* The handler has failed with an error result, or goes on with the id.
WithNode(ns, params, missing) ==
    LET node_id == Get(params, "node_id")
    IN  IF node_id = None \/ node_id = <<>>
        THEN {[failed |-> TRUE, out |-> Returned(Error(<<missing>>), {})]}
        ELSE { IF resolved_id = None
               THEN [failed |-> TRUE,
                     out |-> Returned(Error(<<"Could not find in the graph", node_id>>),
                                      ResolveCalls(ns, node_id))]
               ELSE [failed |-> FALSE, resolved_id |-> resolved_id,
                     invoked |-> ResolveCalls(ns, node_id)] :
               resolved_id \in ResolveNodeIdResults(ns, node_id) }

HandleOwnership(ns, es, params) ==
    UNION { IF r.failed THEN {r.out}
            ELSE { Returned([type |-> "ownership",
                             node |-> GetNode(ns, r.resolved_id),
                             owner |-> owner],
                            r.invoked \cup {"get_owner", "get_node"}) :
                   owner \in GetOwnerResults(ns, es, r.resolved_id) } :
            r \in WithNode(ns, params,
                           "Please specify which service or resource you're asking about.") }

HandleDownstream(ns, es, params) ==
    { IF r.failed THEN r.out
      ELSE Returned([type |-> "dependencies",
                     direction |-> "downstream",
                     node |-> GetNode(ns, r.resolved_id),
                     dependencies |-> DownstreamOf(ns, es, r.resolved_id)],
                    r.invoked \cup {"downstream", "get_node"}) :
      r \in WithNode(ns, params, "Please specify which service you're asking about.") }

HandleUpstream(ns, es, params) ==
    { IF r.failed THEN r.out
      ELSE Returned([type |-> "dependents",
                     direction |-> "upstream",
                     node |-> GetNode(ns, r.resolved_id),
                     dependents |-> UpstreamOf(ns, es, r.resolved_id)],
                    r.invoked \cup {"upstream", "get_node"}) :
      r \in WithNode(ns, params, "Please specify which resource you're asking about.") }

HandleBlastRadius(ns, es, params) ==
    UNION { IF r.failed THEN {r.out}
            ELSE { IF result.none
                   THEN Returned(Error(<<"Could not analyze blast radius",
                                         Get(params, "node_id")>>),
                                 r.invoked \cup {"blast_radius"})
                   ELSE Returned([type |-> "blast_radius",
                                  node |-> result.node,
                                  upstream |-> result.upstream,
                                  downstream |-> result.downstream,
                                  affected_teams |-> result.affected_teams,
                                  total_affected |-> result.total_affected],
                                 r.invoked \cup {"blast_radius"}) :
                   result \in BlastRadiusResults(ns, es, r.resolved_id) } :
            r \in WithNode(ns, params, "Please specify which resource you're asking about.") }

HandlePath(ns, es, params) ==
    LET from_id == Get(params, "from_id")
        to_id   == Get(params, "to_id")
        Missing(x) == x = None \/ x = <<>>
    IN  IF Missing(from_id) \/ Missing(to_id)
        THEN {Returned(Error(<<"Please specify both the start and end points.">>), {})}
        ELSE LET invoked == ResolveCalls(ns, from_id) \cup ResolveCalls(ns, to_id)
                 Asked(resolved_from, resolved_to) ==
                     IF resolved_from = None
                     THEN {Returned(Error(<<"Could not find in the graph", from_id>>), invoked)}
                     ELSE IF resolved_to = None
                     THEN {Returned(Error(<<"Could not find in the graph", to_id>>), invoked)}
                     ELSE { IF path.error
                            THEN [raised |-> TRUE, invoked |-> invoked \cup {"path"}]
                            ELSE Returned([type |-> "path",
                                           from |-> GetNode(ns, resolved_from),
                                           to |-> GetNode(ns, resolved_to),
                                           path |-> path.nodes],
                                          invoked \cup {"path", "get_node"}) :
                            path \in PathResults(ns, es, resolved_from, resolved_to) }
             IN  UNION { Asked(rf, rt) : rf \in ResolveNodeIdResults(ns, from_id),
                                         rt \in ResolveNodeIdResults(ns, to_id) }

HandleListNodes(ns, es, params) ==
    LET node_type == Get(params, "node_type")
        found == GetNodesOf(ns, IF node_type = <<>> THEN None ELSE node_type, EmptyMap)
    IN  {Returned([type |-> "list", node_type |-> node_type, nodes |-> found,
                   count |-> Cardinality(found)],
                  {"get_nodes"})}

HandleNodeInfo(ns, es, params) ==
    UNION { IF r.failed THEN {r.out}
            ELSE { Returned([type |-> "node_info",
                             node |-> GetNode(ns, r.resolved_id),
                             owner |-> owner,
                             downstream |-> DownstreamOf(ns, es, r.resolved_id),
                             upstream |-> UpstreamOf(ns, es, r.resolved_id)],
                            r.invoked \cup {"get_node", "get_owner", "downstream",
                                            "upstream"}) :
                   owner \in GetOwnerResults(ns, es, r.resolved_id) } :
            r \in WithNode(ns, params, "Please specify which node you're asking about.") }

HandleSearch(ns, es, params) ==
    LET query_text == Get(params, "query_text")
    IN  IF query_text = None \/ query_text = <<>>
        THEN {Returned(Error(<<"Please specify what to search for.">>), {})}
        ELSE {Returned([type |-> "search", query |-> query_text,
                        results |-> SearchNodesOf(ns, query_text),
                        count |-> Cardinality(SearchNodesOf(ns, query_text))],
                       {"search_nodes"})}

\* _handle_team_owns: team_name_clean
TeamNameClean(team_name) ==
    IF ~OccursAt(NodeId(team, <<>>), team_name, 1)
    THEN LET stripped == Remove(team_name, <<"@">>)
         IN  IF ~Contains(<<"-">> \o team, stripped) /\ stripped # <<>>
             THEN stripped \o <<"-">> \o team
             ELSE stripped
    ELSE Remove(team_name, NodeId(team, <<>>))

HandleTeamOwns(ns, es, params) ==
    LET team_name == Get(params, "team_name")
    IN  IF team_name = None \/ team_name = <<>>
        THEN {Returned(Error(<<"Please specify which team you're asking about.">>), {})}
        ELSE {Returned([type |-> "team_ownership",
                        team |-> GetNode(ns, NodeId(team, TeamNameClean(team_name))),
                        owned_resources |->
                            NodesOwnedByTeamOf(ns, es, TeamNameClean(team_name))],
                       {"get_nodes_owned_by_team", "get_node"})}

HandleUnknown(ns, es, params) ==
    {Returned(Error(<<"I couldn't understand that query.">>), {})}

\* handlers.get(intent, self._handle_unknown)(params)
Handler(ns, es, intent, params) ==
    CASE intent = "OWNERSHIP" -> HandleOwnership(ns, es, params)
      [] intent = "DEPENDENCY_DOWNSTREAM" -> HandleDownstream(ns, es, params)
      [] intent = "DEPENDENCY_UPSTREAM" -> HandleUpstream(ns, es, params)
      [] intent = "BLAST_RADIUS" -> HandleBlastRadius(ns, es, params)
      [] intent = "PATH" -> HandlePath(ns, es, params)
      [] intent = "LIST_NODES" -> HandleListNodes(ns, es, params)
      [] intent = "NODE_INFO" -> HandleNodeInfo(ns, es, params)
      [] intent = "SEARCH" -> HandleSearch(ns, es, params)
      [] intent = "TEAM_OWNS" -> HandleTeamOwns(ns, es, params)
      [] OTHER -> HandleUnknown(ns, es, params)

\* The graphs the parser is asked about: a service and a database of the
\* same name, a cache and a service whose names share a letter, and a team.
IntentGraphs ==
    LET sa == StoredNode(service, <<"a">>)
        da == StoredNode(database, <<"a">>)
        cab == StoredNode(cache, <<"a","b">>)
        scb == StoredNode(service, <<"c","b">>)
        t == StoredNode(team, <<"t">>)
    IN  { [nodes |-> {sa, da, cab, scb, t},
           edges |-> {EdgeBetween(t, sa), EdgeBetween(sa, da), EdgeBetween(scb, cab)}],
          [nodes |-> {da, cab, scb, t},
           edges |-> {EdgeBetween(t, da), EdgeBetween(scb, cab)}],
          [nodes |-> {}, edges |-> {}] }

\* IntentParser(query_engine): nothing is remembered yet.
InitIntent ==
    /\ \E g \in IntentGraphs :
          /\ nodes = g.nodes
          /\ edges = g.edges
    /\ last = [op |-> "init"]
    /\ pc = "serving"
    /\ files = <<>>
    /\ driver = Driver
    /\ last_result = {}
    /\ last_entity = None

\* What the language model hands to execute_intent.
IntentInputs ==
    { [intent |-> i, params |-> p] :
        i \in {"OWNERSHIP", "DEPENDENCY_DOWNSTREAM", "DEPENDENCY_UPSTREAM",
               "BLAST_RADIUS", "NODE_INFO"},
        p \in {EmptyMap} \cup { [k \in {"node_id"} |-> x] :
                                  x \in { <<>>, <<"a">>, <<"b">>, <<"z">> } } }
    \cup { [intent |-> "PATH", params |-> p] :
             p \in { [k \in {"from_id"} |-> <<"a">>] }
                   \cup { [from_id |-> x, to_id |-> y] :
                            x, y \in { <<"a">>, <<"c","b">>, <<"z">> } } }
    \cup { [intent |-> "LIST_NODES", params |-> p] :
             p \in {EmptyMap, [k \in {"node_type"} |-> service]} }
    \cup { [intent |-> "SEARCH", params |-> p] :
             p \in {EmptyMap, [k \in {"query_text"} |-> <<"b">>]} }
    \cup { [intent |-> "TEAM_OWNS", params |-> p] :
             p \in {EmptyMap} \cup { [k \in {"team_name"} |-> x] :
                                       x \in { <<"@","t">>, NodeId(team, <<"t">>) } } }
    \cup { [intent |-> "GREETING", params |-> EmptyMap],
           [k \in {"clarification"} |-> None],
           [intent |-> "OWNERSHIP", params |-> [k \in {"node_id"} |-> <<"a">>],
            clarification |-> <<"Which one do you mean?">>],
           [intent |-> "OWNERSHIP", params |-> [k \in {"node_id"} |-> <<"z">>],
            clarification |-> <<>>] }

\* _resolve_node_id(identifier)
ResolveNodeId(identifier) ==
    /\ pc = "serving"
    /\ \E resolved_id \in ResolveNodeIdResults(nodes, identifier) :
          last' = [op |-> "_resolve_node_id", arg |-> identifier,
                   result |-> resolved_id]
    /\ pc' = "responding"
    /\ UNCHANGED <<nodes, edges, files, driver, last_result, last_entity>>

\* A parser that remembers whatever a handler returned, errors included.
ContextAlways(out, result_before, entity_before) ==
    IF out.raised
    THEN [last_result |-> result_before, last_entity |-> entity_before]
    ELSE [last_result |-> {out.result},
          last_entity |-> IF "node" \in DOMAIN out.result
                          THEN Get(out.result.node, "id")
                          ELSE entity_before]

\* execute_intent, after the handler: last_result and last_entity when it
\* leaves.  A handler's result that has a node has a stored one: the
\* handlers that return "node" resolve the id first.
Context(out, result_before, entity_before) ==
    IF out.raised \/ out.result.type = "error"
    THEN [last_result |-> result_before, last_entity |-> entity_before]
    ELSE [last_result |-> {out.result},
          last_entity |-> IF "node" \in DOMAIN out.result
                          THEN Get(out.result.node, "id")
                          ELSE entity_before]

\* execute_intent(intent_data)
ExecuteIntent(intent_data) ==
    LET intent == IF "intent" \in DOMAIN intent_data
                  THEN intent_data.intent ELSE "UNKNOWN"
        params == IF "params" \in DOMAIN intent_data
                  THEN intent_data.params ELSE EmptyMap
        clarification == Get(intent_data, "clarification")
    IN  /\ pc = "serving"
        /\ pc' = "responding"
        /\ UNCHANGED <<nodes, edges, files, driver>>
        /\ IF clarification # None /\ clarification # <<>>
           THEN /\ last' = [op |-> "execute_intent", arg |-> intent_data,
                            out |-> Returned([type |-> "clarification",
                                              message |-> clarification], {})]
                /\ UNCHANGED <<last_result, last_entity>>
           ELSE \E out \in Handler(nodes, edges, intent, params) :
                /\ last' = [op |-> "execute_intent", arg |-> intent_data, out |-> out]
                /\ last_result' = Context(out, last_result, last_entity).last_result
                /\ last_entity' = Context(out, last_result, last_entity).last_entity

NextIntent ==
    \/ \E identifier \in { <<"a">>, <<"A">>, <<"b">>, <<"z">>, <<"t">>,
                           NodeId(service, <<"a">>), NodeId(database, <<"a">>),
                           NodeId(team, <<"a">>) } : ResolveNodeId(identifier)
    \/ \E intent_data \in IntentInputs : ExecuteIntent(intent_data)
    \/ Respond

SpecIntent == InitIntent /\ [][NextIntent]_vars

----------------------------------------------------------------------------
(* Claims about the intent parser *)

\* The ids the identifier stands for with a type prefix, in the fixed order.
PrefixedIds(identifier) ==
    << NodeId(service, identifier), NodeId(database, identifier),
       NodeId(cache, identifier), NodeId(team, identifier) >>

Stored(id) == \E n \in nodes : Get(n, "id") = id

\* The ids of the stored nodes whose name or id has the identifier in it,
\* letter case aside.
SearchMatches(identifier) ==
    { Get(n, "id") : n \in
        {m \in nodes : \/ Contains(Lower(identifier), Lower(Get(m, "id")))
                       \/ Contains(Lower(identifier), Lower(Get(m, "name")))} }

\* C23: an identifier that is the id of a stored node resolves to itself;
\* otherwise it resolves to the first stored id among service:<identifier>,
\* database:<identifier>, cache:<identifier>, team:<identifier>; only when
\* none of them is stored does it resolve to a node the search finds; it
\* resolves to none only when the search finds nothing, and whatever it
\* resolves to other than none is the id of a stored node.
C23_ResolutionPrecedence ==
    last.op = "_resolve_node_id" =>
        LET identifier == last.arg
            resolved == last.result
            prefixed == PrefixedIds(identifier)
        IN  /\ Stored(identifier) => resolved = identifier
            /\ \A i \in 1..4 :
                  (/\ ~Stored(identifier)
                   /\ Stored(prefixed[i])
                   /\ \A j \in 1..(i - 1) : ~Stored(prefixed[j]))
                  => resolved = prefixed[i]
            /\ (~Stored(identifier) /\ \A i \in 1..4 : ~Stored(prefixed[i]))
                  => /\ SearchMatches(identifier) # {} => resolved \in SearchMatches(identifier)
                     /\ SearchMatches(identifier) = {} => resolved = None
            /\ resolved # None => Stored(resolved)

\* C23 witness: "a" was resolved in a graph that has both service:a and
\* database:a.
C23_Witness ==
    /\ last.op = "_resolve_node_id"
    /\ last.arg = <<"a">>
    /\ Stored(NodeId(service, <<"a">>))
    /\ Stored(NodeId(database, <<"a">>))
    /\ last.result = NodeId(service, <<"a">>)

\* C24: when the resolution falls back to the search and several nodes
\* match, the id it resolves to is the smallest matching id in string order.
C24_SearchFallbackDeterministic ==
    (/\ last.op = "_resolve_node_id"
     /\ ~Stored(last.arg)
     /\ \A i \in 1..4 : ~Stored(PrefixedIds(last.arg)[i])
     /\ SearchMatches(last.arg) # {})
    => \A id \in SearchMatches(last.arg) :
          last.result = id \/ StrLess(last.result, id)

----------------------------------------------------------------------------
(* Type inference in the connectors *)

\* One entity of a source file: its name, its labels and its image.
InitInfer ==
    /\ nodes = {}
    /\ edges = {}
    /\ last = [op |-> "init"]
    /\ pc = "read"
    /\ files \in
         [name : { <<"a">>, <<"u","s","e","r","d","b">>,
                   <<"c","a","s","s","a","n","d","r","a">>,
                   <<"r","e","d","i","s">>, <<"p","o","s","t","g","r","e","s">> },
          labels : {EmptyMap} \cup { [k \in {"type"} |-> t] :
                                       t \in {database, cache, service, team} },
          image : { <<>>, <<"n","o","d","e">>, <<"P","o","s","t","g","r","e","s">>,
                    <<"r","e","d","i","s">> }]
    /\ driver = None
    /\ last_result = {}
    /\ last_entity = None

\* docker_compose.py: node_type = self._infer_node_type(name, config)
InferDocker ==
    /\ pc = "read"
    /\ last' = [op |-> "_infer_node_type",
                result |-> InferNodeType(files.name,
                                         Config(files.labels, files.image, <<>>, <<>>,
                                                [kind |-> "list", items |-> <<>>]))]
    /\ pc' = "typed"
    /\ UNCHANGED <<nodes, edges, files, driver, last_result, last_entity>>

\* kubernetes.py: the node _parse_deployment makes of a Deployment
InferK8s ==
    /\ pc = "read"
    /\ last' = [op |-> "_parse_deployment",
                result |-> DeploymentNode(
                               Document("Deployment", files.name, files.labels,
                                        <<Container(files.image, <<>>)>>, <<>>)).type]
    /\ pc' = "typed"
    /\ UNCHANGED <<nodes, edges, files, driver, last_result, last_entity>>

NextInfer == InferDocker \/ InferK8s

SpecInfer == InitInfer /\ [][NextInfer]_vars

\* The keywords of the two categories.
DatabaseKeywords ==
    { <<"p","o","s","t","g","r","e","s">>, <<"m","y","s","q","l">>,
      <<"m","a","r","i","a","d","b">>, <<"m","o","n","g","o","d","b">>,
      <<"c","a","s","s","a","n","d","r","a">> }

CacheKeywords == { <<"r","e","d","i","s">>, <<"m","e","m","c","a","c","h","e","d">> }

Mentions(keywords, s) == \E k \in keywords : Contains(k, Lower(s))

\* The type by the priority order: the label, the image, the name, service.
TypeByPriority(name, labels, image) ==
    IF "type" \in DOMAIN labels THEN labels["type"]
    ELSE IF Mentions(DatabaseKeywords, image) THEN database
    ELSE IF Mentions(CacheKeywords, image) THEN cache
    ELSE IF Mentions(DatabaseKeywords, name) THEN database
    ELSE IF Mentions(CacheKeywords, name) THEN cache
    ELSE service

\* C25: the type inferred for an entity is the one its type label gives when
\* it has one (service and team included), otherwise the category whose
\* keyword its image has, otherwise the category whose keyword its name has,
\* otherwise service.
C25_TypeInferencePriority ==
    last.op \in {"_infer_node_type", "_parse_deployment"} =>
        last.result = TypeByPriority(files.name, files.labels, files.image)

\* C26: when execute_intent returns a result of type error, last_result and
\* last_entity are what they were before the call; last_entity changes only
\* on a result that is not an error and has a node; and a request that
\* carries a clarification is answered with it, no operation of the query
\* engine having been invoked.
C26_ContextKeptOnFailure ==
    [][ last'.op = "execute_intent" =>
          LET out == last'.out
              clarification == Get(last'.arg, "clarification")
          IN  /\ (~out.raised /\ out.result.type = "error") =>
                    (last_result' = last_result /\ last_entity' = last_entity)
              /\ last_entity' # last_entity =>
                    (/\ ~out.raised
                     /\ out.result.type # "error"
                     /\ "node" \in DOMAIN out.result)
              /\ (clarification # None /\ clarification # <<>>) =>
                    (/\ ~out.raised
                     /\ out.result.type = "clarification"
                     /\ out.invoked = {}
                     /\ last_result' = last_result) ]_vars

\* C26 witness: an identifier that is not in the graph was asked about
\* after a request that succeeded; the parser still remembers the earlier
\* result and its node.
C26_Witness ==
    /\ last.op = "execute_intent"
    /\ ~last.out.raised
    /\ last.out.result.type = "error"
    /\ last.out.invoked # {}
    /\ last_result # {}
    /\ last_entity # None
    /\ \A r \in last_result : r.type # "error"

====
